---- MODULE Spec2Model ----
(***************************************************************************)
(* Model of the weather / RAG agent: the LangGraph agent (agent.py), the   *)
(* RAG service (rag_service.py), the vector store (vector_store.py) and    *)
(* the weather service (weather_service.py).                               *)
(*                                                                         *)
(* Query strings are sequences of one-character strings, so that           *)
(* substring search, lower-casing, stripping, splitting and title-casing   *)
(* are computed as Python computes them.  Texts produced by the program    *)
(* (responses, error messages, prompts) are sequences of string tokens:    *)
(* a literal of the source is one token, an interpolated value another.    *)
(***************************************************************************)
EXTENDS Integers, Sequences, FiniteSets, TLC

(***************************************************************************)
(* Bounds of the model.                                                    *)
(***************************************************************************)
MaxFrags == 3
MaxBatch == 2

\* the pieces of the longest text given to chunk_text
MaxPieces == 5

\* the concurrent callers of process_query
MaxThreads == 2

\* the prompts submitted in one session of the application
MaxPrompts == 2

(***************************************************************************)
(* Python string primitives used by agent.py.                              *)
(***************************************************************************)
LowerOf ==
    ("A" :> "a") @@ ("B" :> "b") @@ ("C" :> "c") @@ ("D" :> "d") @@
    ("E" :> "e") @@ ("F" :> "f") @@ ("G" :> "g") @@ ("H" :> "h") @@
    ("I" :> "i") @@ ("J" :> "j") @@ ("K" :> "k") @@ ("L" :> "l") @@
    ("M" :> "m") @@ ("N" :> "n") @@ ("O" :> "o") @@ ("P" :> "p") @@
    ("Q" :> "q") @@ ("R" :> "r") @@ ("S" :> "s") @@ ("T" :> "t") @@
    ("U" :> "u") @@ ("V" :> "v") @@ ("W" :> "w") @@ ("X" :> "x") @@
    ("Y" :> "y") @@ ("Z" :> "z")

UpperLetters == DOMAIN LowerOf

LowerLetters == {LowerOf[c] : c \in UpperLetters}

\* str.lower()
Lower(s) ==
    [i \in 1..Len(s) |-> IF s[i] \in UpperLetters THEN LowerOf[s[i]] ELSE s[i]]

\* a cased character, as str.title() sees it
IsCased(c) == c \in UpperLetters \/ c \in LowerLetters

\* str.title(): a cased character is upper-cased when the character before
\* it is not cased (or there is none), and lower-cased otherwise
Title(s) ==
    [i \in 1..Len(s) |->
        IF ~IsCased(s[i]) THEN s[i]
        ELSE IF i > 1 /\ IsCased(s[i - 1])
             THEN (IF s[i] \in UpperLetters THEN LowerOf[s[i]] ELSE s[i])
             ELSE (IF s[i] \in LowerLetters
                   THEN CHOOSE u \in UpperLetters : LowerOf[u] = s[i]
                   ELSE s[i])]

\* the characters str.strip() and str.split() treat as whitespace
Whitespace == {" ", "\t", "\n"}

\* `p in s` for strings
Contains(p, s) ==
    \E i \in 0..(Len(s) - Len(p)) : SubSeq(s, i + 1, i + Len(p)) = p

\* s.split(p, 1)[1] when p occurs in s: the text after the first occurrence
AfterFirst(p, s) ==
    LET first == CHOOSE i \in 0..(Len(s) - Len(p)) :
                    /\ SubSeq(s, i + 1, i + Len(p)) = p
                    /\ \A j \in 0..(i - 1) : SubSeq(s, j + 1, j + Len(p)) # p
    IN  SubSeq(s, first + Len(p) + 1, Len(s))

\* str.rstrip(chars)
RStrip(s, chars) ==
    LET keep == {i \in 1..Len(s) : s[i] \notin chars}
        last == IF keep = {} THEN 0 ELSE CHOOSE i \in keep : \A j \in keep : j <= i
    IN  SubSeq(s, 1, last)

\* str.lstrip(chars)
LStrip(s, chars) ==
    LET keep == {i \in 1..Len(s) : s[i] \notin chars}
        first == IF keep = {} THEN Len(s) + 1
                 ELSE CHOOSE i \in keep : \A j \in keep : i <= j
    IN  SubSeq(s, first, Len(s))

\* str.strip()
Strip(s) == LStrip(RStrip(s, Whitespace), Whitespace)

\* str.split(): the maximal runs of non-whitespace characters, in order
RECURSIVE SplitWords(_)
SplitWords(s) ==
    LET t == LStrip(s, Whitespace)
    IN  IF t = <<>> THEN <<>>
        ELSE LET ws  == {i \in 1..Len(t) : t[i] \in Whitespace}
                 cut == IF ws = {} THEN Len(t) + 1
                        ELSE CHOOSE i \in ws : \A j \in ws : i <= j
             IN  <<SubSeq(t, 1, cut - 1)>> \o SplitWords(SubSeq(t, cut, Len(t)))

(***************************************************************************)
(* agent.py: the classifier and the city extractor.                        *)
(***************************************************************************)
weather_keywords == <<
    <<"w","e","a","t","h","e","r">>,
    <<"t","e","m","p","e","r","a","t","u","r","e">>,
    <<"f","o","r","e","c","a","s","t">>,
    <<"h","u","m","i","d","i","t","y">>,
    <<"w","i","n","d">>,
    <<"r","a","i","n">>,
    <<"s","n","o","w">>,
    <<"c","l","i","m","a","t","e">>,
    <<"t","e","m","p","e","r","a","t","u","r","e"," ","i","n">>,
    <<"w","e","a","t","h","e","r"," ","i","n">>,
    <<"h","o","w","'","s"," ","t","h","e"," ","w","e","a","t","h","e","r">>,
    <<"w","h","a","t","'","s"," ","t","h","e"," ","w","e","a","t","h","e","r">> >>

\* any(keyword in query for keyword in weather_keywords), from keyword i on
RECURSIVE AnyKeyword(_, _)
AnyKeyword(query, i) ==
    IF i > Len(weather_keywords) THEN FALSE
    ELSE IF Contains(weather_keywords[i], query) THEN TRUE
    ELSE AnyKeyword(query, i + 1)

\* a variant that does not lower-case the query
ShouldUseWeatherCaseSensitive(q) ==
    IF AnyKeyword(q, 1) THEN "weather" ELSE "rag"

\* AIAgent._should_use_weather on a state whose query is q
ShouldUseWeather(q) ==
    IF AnyKeyword(Lower(q), 1) THEN "weather" ELSE "rag"

patterns == <<
    <<"i","n"," ">>,
    <<"f","o","r"," ">>,
    <<"a","t"," ">>,
    <<"w","e","a","t","h","e","r"," ">>,
    <<"t","e","m","p","e","r","a","t","u","r","e"," ">> >>

Punctuation == {"?", ".", ",", "!"}

multi_word_prefixes == {
    <<"n","e","w">>, <<"s","a","n">>, <<"l","o","s">>,
    <<"s","a","i","n","t">>, <<"s","t">> }

\* the words left of the text after the first occurrence of pattern
WordsAfter(pattern, query_lower) ==
    SplitWords(Strip(RStrip(Strip(AfterFirst(pattern, query_lower)), Punctuation)))

\* a variant that never takes two words
FirstWordOnly(words) == words[1]

\* the city built from a non-empty word list, before title-casing
CityOfWords(words) ==
    IF Len(words) >= 2 /\ words[1] \in multi_word_prefixes
    THEN words[1] \o <<" ">> \o words[2]
    ELSE words[1]

\* the for loop over patterns, from pattern i on: a pattern that occurs but
\* leaves no word does not return, and the loop goes on to the next pattern
RECURSIVE ExtractLoop(_, _)
ExtractLoop(query_lower, i) ==
    IF i > Len(patterns) THEN <<>>
    ELSE IF Contains(patterns[i], query_lower)
            /\ Len(WordsAfter(patterns[i], query_lower)) >= 1
         THEN Title(CityOfWords(WordsAfter(patterns[i], query_lower)))
         ELSE ExtractLoop(query_lower, i + 1)

\* AIAgent._extract_city_from_query
ExtractCity(query) == ExtractLoop(Lower(query), 1)

(***************************************************************************)
(* Calls return an outcome: a value, or an exception with its str().       *)
(***************************************************************************)
Returns(v) == [ok |-> TRUE, val |-> v, msg |-> <<>>]

Raises(m) == [ok |-> FALSE, val |-> <<>>, msg |-> m]

\* the outcome of a call to an external service, from what the service did
Outcome(did, v) == IF did.ok THEN Returns(v) ELSE Raises(<<did.msg>>)

\* a call made to a collaborator, as a mock would record it, with its outcome
Call(fn, arg, out) == [fn |-> fn, arg |-> arg, out |-> out]

CallsTo(calls, fn) == {i \in 1..Len(calls) : calls[i].fn = fn}

(***************************************************************************)
(* weather_service.py.  Temperatures, wind speeds and visibilities in km   *)
(* are integers in tenths of their unit; the visibility of the payload is  *)
(* in metres.  A JSON null is the empty tuple, a number n the tuple <<n>>. *)
(***************************************************************************)
\* the characters of a string as one token
RECURSIVE StrOf(_)
StrOf(chars) == IF chars = <<>> THEN "" ELSE Head(chars) \o StrOf(Tail(chars))

\* f"{x:.1f}" for a non-negative number held in tenths
Fix1(t) == ToString(t \div 10) \o "." \o ToString(t % 10)

\* round to nearest
RoundDiv(a, b) == (2 * a + b) \div (2 * b)

GoodData == [
    name |-> "Tokyo", country |-> "JP", temp |-> <<200>>, feels_like |-> <<185>>,
    humidity |-> 65, pressure |-> 1013,
    weather |-> << <<"c","l","e","a","r"," ","s","k","y">> >>,
    wind_speed |-> 35, visibility |-> 10000 ]

Without(data, k) == [x \in DOMAIN data \ {k} |-> data[x]]

\* what the HTTP request of get_weather can do: raise a RequestException
\* (connection error, timeout, HTTP error status), raise another exception,
\* or deliver a JSON document
HttpOutcomes == {
    [kind |-> "request_exception", msg |-> "404 Client Error: Not Found", data |-> GoodData],
    [kind |-> "other_exception", msg |-> "API Error", data |-> GoodData],
    [kind |-> "json", msg |-> "", data |-> GoodData],
    [kind |-> "json", msg |-> "", data |-> Without(GoodData, "visibility")],
    [kind |-> "json", msg |-> "", data |-> [GoodData EXCEPT !.visibility = 0]],
    [kind |-> "json", msg |-> "", data |-> Without(GoodData, "wind_speed")],
    [kind |-> "json", msg |-> "", data |-> Without(GoodData, "name")],
    [kind |-> "json", msg |-> "", data |-> [GoodData EXCEPT !.weather = <<>>]],
    [kind |-> "json", msg |-> "", data |-> [GoodData EXCEPT !.temp = <<>>]] }

\* the record built from a JSON document that has every required key
WeatherRecord(data, units) == [
    city |-> data.name,
    country |-> data.country,
    temperature |-> data.temp,
    feels_like |-> data.feels_like,
    humidity |-> data.humidity,
    pressure |-> data.pressure,
    description |-> data.weather[1],
    wind_speed |-> IF "wind_speed" \in DOMAIN data THEN data.wind_speed ELSE 0,
    visibility |-> IF "visibility" \in DOMAIN data /\ data.visibility # 0
                   THEN <<RoundDiv(data.visibility, 100)>> ELSE <<>>,
    units |-> units ]

RequiredKeys == <<"name", "country", "temp", "feels_like", "humidity", "pressure", "weather">>

\* the first required key the document lacks, in the order the record reads them
FirstMissing(data) ==
    LET miss == {i \in 1..Len(RequiredKeys) : RequiredKeys[i] \notin DOMAIN data}
    IN  IF miss = {} THEN 0 ELSE CHOOSE i \in miss : \A j \in miss : i <= j

\* WeatherService.get_weather, given what the HTTP request does
GetWeather(city, units, http) ==
    IF http.kind = "request_exception"
    THEN Raises(<<"Failed to fetch weather data: ", http.msg>>)
    ELSE IF http.kind = "other_exception"
    THEN Raises(<<http.msg>>)
    ELSE IF FirstMissing(http.data) # 0
    THEN Raises(<<"Unexpected API response format: ",
                  "'" \o RequiredKeys[FirstMissing(http.data)] \o "'">>)
    ELSE IF http.data.weather = <<>>
    THEN Raises(<<"list index out of range">>)
    ELSE Returns(WeatherRecord(http.data, units))

UnitSymbol(units) == IF units = "metric" THEN "deg C" ELSE "deg F"

\* WeatherService.format_weather_response (the degree sign, the middle dot and
\* the em-dash of the source are written deg, - and --)
FormatWeatherResponse(weather_data) ==
    LET visibility == IF "visibility" \in DOMAIN weather_data
                      THEN weather_data.visibility ELSE <<>>
        wind_speed == IF "wind_speed" \in DOMAIN weather_data
                      THEN weather_data.wind_speed ELSE 0
    IN
    IF weather_data.temperature = <<>> \/ weather_data.feels_like = <<>>
    THEN Raises(<<"unsupported format string passed to NoneType.__format__">>)
    ELSE Returns(
        <<"**Weather - ", weather_data.city, ", ", weather_data.country, "**",
          "- **Temperature:** ", Fix1(weather_data.temperature[1]),
          UnitSymbol(weather_data.units),
          " (feels like ", Fix1(weather_data.feels_like[1]),
          UnitSymbol(weather_data.units), ")",
          "- **Conditions:** ", StrOf(Title(weather_data.description)),
          "- **Humidity / Pressure:** ", ToString(weather_data.humidity), "% - ",
          ToString(weather_data.pressure), " hPa",
          "- **Wind:** ", Fix1(wind_speed), " m/s (",
          Fix1(RoundDiv(wind_speed * 36, 10)), " km/h)",
          "- **Visibility:** ">>
          \o (IF visibility # <<>> THEN <<Fix1(visibility[1]), " km">> ELSE <<"--">>))

(***************************************************************************)
(* vector_store.py.  The backend holds the collection: whether it exists   *)
(* and its points, a function from point id to [vector, payload].          *)
(***************************************************************************)
TextA == "chunk 172316"
TextB == "chunk 2523"
TextC == "chunk 2"

\* int(hashlib.md5(text.encode()).hexdigest()[:8], 16) of the model's texts
text_hash ==
    (TextA :> 1173682843) @@ (TextB :> 1173682842) @@ (TextC :> 1405904697)

EmptyBackend == [exists |-> TRUE, points |-> <<>>]

PointIds(backend) == DOMAIN backend.points

\* a variant that takes every metadatas argument for an absent one
NeverTruthy(metadatas) == FALSE

\* `if metadatas`: the caller's metadatas argument is None (none) or a list of
\* dicts; None and the empty list are both false
Truthy(metadatas) == ~metadatas.none /\ Len(metadatas.list) > 0

\* metadata["text"] = text on a dict
SetText(metadata, text) ==
    [k \in DOMAIN metadata \cup {"text"} |-> IF k = "text" THEN text ELSE metadata[k]]

\* the id the loop gives the chunk at 0-based position idx
PointId(text, idx) == text_hash[text] + idx

\* the number of loop iterations that complete: all of zip(texts, embeddings),
\* or those before metadatas[idx] raises IndexError
Completed(texts, metadatas) ==
    IF Truthy(metadatas) /\ Len(metadatas.list) < Len(texts)
    THEN Len(metadatas.list) ELSE Len(texts)

\* the points the loop has appended after n iterations
Points(texts, metadatas, n) ==
    \* the embedding service is a fixed function of the text
    LET Embedding(text) == <<"embedding", text>>
    IN  [i \in 1..n |->
            [id |-> PointId(texts[i], i - 1),
             vector |-> Embedding(texts[i]),
             payload |-> SetText(IF Truthy(metadatas) THEN metadatas.list[i]
                                 ELSE <<>>, texts[i])]]

\* the caller's list after n iterations: each dict read by the loop has its
\* text entry set
MetadatasAfter(texts, metadatas, n) ==
    IF Truthy(metadatas)
    THEN [none |-> FALSE,
          list |-> [i \in 1..Len(metadatas.list) |->
                      IF i <= n THEN SetText(metadatas.list[i], texts[i])
                      ELSE metadatas.list[i]]]
    ELSE metadatas

\* a variant in which a request replaces what the collection held
RECURSIVE UpsertReplacing(_, _)
UpsertReplacing(stored, points) ==
    IF points = <<>> THEN <<>>
    ELSE LET p == Head(points)
             rest == UpsertReplacing(stored, Tail(points))
         IN  [i \in DOMAIN rest \cup {p.id} |->
                 IF i \in DOMAIN rest THEN rest[i]
                 ELSE [vector |-> p.vector, payload |-> p.payload]]

\* the points of a request written one after the other: a point replaces the
\* stored point of the same id
RECURSIVE UpsertInOrder(_, _)
UpsertInOrder(stored, points) ==
    IF points = <<>> THEN stored
    ELSE LET p == Head(points)
         IN  UpsertInOrder(
                [i \in DOMAIN stored \cup {p.id} |->
                    IF i = p.id THEN [vector |-> p.vector, payload |-> p.payload]
                    ELSE stored[i]],
                Tail(points))

Reverse(seq) == [i \in 1..Len(seq) |-> seq[Len(seq) + 1 - i]]

\* the backend's upsert of a list of points; of two points of one request with
\* the same id the backend keeps the last (last_wins) or the first
UpsertPoints(stored, points, last_wins) ==
    UpsertInOrder(stored, IF last_wins THEN points ELSE Reverse(points))

\* what the embedding service can do
EmbedOutcomes == {[ok |-> TRUE, msg |-> ""], [ok |-> FALSE, msg |-> "Rate limit reached"]}

\* the result of an operation of the store: its outcome, the backend and the
\* caller's metadatas after it, and the calls it made
StoreResult(out, backend, metadatas, calls) ==
    [out |-> out, backend |-> backend, metadatas |-> metadatas, calls |-> calls]

\* a variant without the early return
NeverNoTexts(texts) == FALSE

\* `if not texts`
NoTexts(texts) == texts = <<>>

\* VectorStore.add_documents
AddDocuments(backend, texts, metadatas, embed, upsert) ==
    IF NoTexts(texts) THEN StoreResult(Returns(<<>>), backend, metadatas, <<>>)
    ELSE IF ~embed.ok
    THEN StoreResult(Raises(<<embed.msg>>), backend, metadatas,
                     <<Call("embed_documents", texts, Outcome(embed, <<>>))>>)
    ELSE IF Completed(texts, metadatas) < Len(texts)
    THEN StoreResult(Raises(<<"list index out of range">>), backend,
                     MetadatasAfter(texts, metadatas, Completed(texts, metadatas)),
                     <<Call("embed_documents", texts, Outcome(embed, <<>>))>>)
    ELSE LET points == Points(texts, metadatas, Len(texts))
             calls == <<Call("embed_documents", texts, Outcome(embed, <<>>)),
                        Call("upsert", [i \in 1..Len(points) |-> points[i].id],
                             IF backend.exists THEN Outcome(upsert, <<>>)
                             ELSE Raises(<<"Collection doesn't exist">>))>>
             after == MetadatasAfter(texts, metadatas, Len(texts))
             written == [backend EXCEPT
                           !.points = UpsertPoints(@, points, upsert.last_wins)]
         IN  IF ~backend.exists
             THEN StoreResult(
                    Raises(<<"Failed to add documents to vector store: ",
                             "Collection doesn't exist">>), backend, after, calls)
             ELSE IF ~upsert.ok
             THEN StoreResult(
                    Raises(<<"Failed to add documents to vector store: ", upsert.msg>>),
                    IF upsert.applied THEN written ELSE backend, after, calls)
             ELSE StoreResult(Returns(<<>>), written, after, calls)

\* cosine similarity of the embeddings of a query and of a stored text, in
\* percent: a fixed function, as the embedding service is
Similarity(query, text) ==
    IF text = TextC THEN 50
    ELSE IF Len(query) % 2 = 0 THEN 90
    ELSE IF text = TextA THEN 90 ELSE 70

ScoreOf(backend, query, id) == Similarity(query, backend.points[id].vector[2])

\* what the backend's search can do: fail, or answer with a hit list
SearchOutcomes(backend, query, limit) ==
    \* the answers the backend can give to a search with a limit: the ids of the
    \* limit nearest points (all of them when there are fewer), by descending
    \* score, ties in any order
    LET HitLists ==
            LET ids == PointIds(backend)
                m == IF limit < Cardinality(ids) THEN limit ELSE Cardinality(ids)
            IN  {h \in [1..m -> ids] :
                    /\ \A i, j \in 1..m : i # j => h[i] # h[j]
                    /\ \A i \in 1..(m - 1) :
                          ScoreOf(backend, query, h[i]) >= ScoreOf(backend, query, h[i + 1])
                    /\ \A i \in 1..m : \A x \in ids \ {h[j] : j \in 1..m} :
                          ScoreOf(backend, query, h[i]) >= ScoreOf(backend, query, x)}
    IN  {[ok |-> FALSE, hits |-> <<>>, msg |-> "Connection refused"]}
        \cup {[ok |-> TRUE, hits |-> h, msg |-> ""] : h \in HitLists}

\* a variant that leaves the text entry in the metadata
FormatResultWholePayload(backend, query, id) ==
    LET payload == backend.points[id].payload
    IN  [text |-> IF "text" \in DOMAIN payload THEN payload["text"] ELSE "",
         metadata |-> payload,
         score |-> ScoreOf(backend, query, id)]

\* the dict search builds from one scored point
FormatResult(backend, query, id) ==
    LET payload == backend.points[id].payload
    IN  [text |-> IF "text" \in DOMAIN payload THEN payload["text"] ELSE "",
         metadata |-> [k \in DOMAIN payload \ {"text"} |-> payload[k]],
         score |-> ScoreOf(backend, query, id)]

\* VectorStore.search: its outcome and the calls it made
Search(backend, query, top_k, embed, srch) ==
    IF ~embed.ok
    THEN [out |-> Raises(<<embed.msg>>),
          calls |-> <<Call("embed_query", query, Outcome(embed, <<>>))>>]
    ELSE LET calls == <<Call("embed_query", query, Outcome(embed, <<>>)),
                        Call("client.search", top_k,
                             IF backend.exists THEN Outcome(srch, srch.hits)
                             ELSE Raises(<<"Collection doesn't exist">>))>>
         IN  IF ~backend.exists
             THEN [out |-> Raises(<<"Failed to search vector store: ",
                                    "Collection doesn't exist">>), calls |-> calls]
             ELSE IF ~srch.ok
             THEN [out |-> Raises(<<"Failed to search vector store: ", srch.msg>>),
                   calls |-> calls]
             ELSE [out |-> Returns([i \in 1..Len(srch.hits) |->
                                      FormatResult(backend, query, srch.hits[i])]),
                   calls |-> calls]

search_default_top_k == 5

(***************************************************************************)
(* rag_service.py                                                          *)
(***************************************************************************)
query_default_top_k == 3

NoInformationAnswer ==
    <<"I couldn't find any relevant information in the documents to answer your question.">>

Separator == "\n\n---\n\n"

\* separator.join(parts), part by part
RECURSIVE JoinFrom(_, _, _)
JoinFrom(parts, separator, i) ==
    IF i > Len(parts) THEN <<>>
    ELSE IF i = Len(parts) THEN <<parts[i]>>
    ELSE <<parts[i], separator>> \o JoinFrom(parts, separator, i + 1)

\* what the language model can do: raise, or answer with a text
LlmOutcomes == {
    [ok |-> FALSE, content |-> <<>>, msg |-> "You exceeded your current quota"],
    [ok |-> TRUE, content |-> <<"The deadline is Friday.">>, msg |-> ""],
    [ok |-> TRUE, content |-> <<>>, msg |-> ""] }

\* a variant that never takes the no-results exit
NeverNothingRetrieved(retrieved_docs) == FALSE

\* `if not retrieved_docs`
NothingRetrieved(retrieved_docs) == retrieved_docs = <<>>

\* a variant that joins without the separator
JoinWithoutSeparator(parts, separator) == parts

\* separator.join(parts)
Join(parts, separator) == JoinFrom(parts, separator, 1)

\* RAGService.query: its outcome and the calls it made
RagQuery(backend, question, top_k, embed, srch, llm) ==
    LET found == Search(backend, question, top_k, embed, srch)
        searched == <<Call("search", question, found.out)>> \o found.calls
    IN  IF ~found.out.ok THEN [out |-> found.out, calls |-> searched]
        ELSE IF NothingRetrieved(found.out.val)
        THEN [out |-> Returns([answer |-> NoInformationAnswer, sources |-> <<>>,
                               retrieved_chunks |-> <<>>]),
              calls |-> searched]
        ELSE LET retrieved_docs == found.out.val
                 context == Join([i \in 1..Len(retrieved_docs) |->
                                    retrieved_docs[i].text], Separator)
                 calls == searched \o <<Call("llm", [context |-> context,
                                                   question |-> question],
                                             Outcome(llm, llm.content))>>
             IN  IF ~llm.ok THEN [out |-> Raises(<<llm.msg>>), calls |-> calls]
                 ELSE [out |-> Returns(
                          [answer |-> llm.content,
                           sources |-> [i \in 1..Len(retrieved_docs) |->
                                          retrieved_docs[i].metadata],
                           retrieved_chunks |-> retrieved_docs]),
                       calls |-> calls]

(***************************************************************************)
(* agent.py: the handlers of the graph's nodes.                            *)
(***************************************************************************)
InitialState(query) == [messages |-> <<>>, query |-> query, route |-> "", response |-> <<>>]

GuidanceMessage ==
    <<"I couldn't identify a city name in your query. Please specify a city, for example: 'What's the weather in London?'">>

WeatherApology == "Sorry, I encountered an error fetching weather data: "

RagApology == "Sorry, I encountered an error processing your query: "

\* the result of a node: whether an exception left it, the state it returns
\* and the calls it made
NodeResult(raised, state, calls) == [raised |-> raised, state |-> state, calls |-> calls]

\* AIAgent._route_query
RouteQuery(state) == state

\* a variant with the two targets exchanged
NextNodeSwapped(state) ==
    [weather |-> "rag", rag |-> "weather"][ShouldUseWeather(state.query)]

\* the conditional edge out of route: the classifier's value, mapped to a node
NextNode(state) ==
    [weather |-> "weather", rag |-> "rag"][ShouldUseWeather(state.query)]

\* a variant that lets the exception through
Reraise(state, apology, msg, route, calls) == NodeResult(TRUE, state, calls)

\* a variant that leaves the error text out
ExceptWithoutText(state, apology, msg, route, calls) ==
    NodeResult(FALSE, [state EXCEPT !.response = <<apology>>, !.route = route], calls)

\* the except clause of a handler: the apology with str(e), under the
\* handler's route
Except(state, apology, msg, route, calls) ==
    NodeResult(FALSE, [state EXCEPT !.response = <<apology>> \o msg, !.route = route],
               calls)

\* a variant that finds a city in every query
AlwaysCity(city) == FALSE

\* `if not city`
NoCity(city) == city = <<>>

\* AIAgent._handle_weather, given what the HTTP request of the lookup does
HandleWeather(state, http) ==
    LET city == ExtractCity(state.query)
    IN  IF NoCity(city)
        THEN NodeResult(FALSE, [state EXCEPT !.response = GuidanceMessage,
                                             !.route = "weather"], <<>>)
        ELSE LET weather_data == GetWeather(city, "metric", http)
                 looked == <<Call("get_weather", city, weather_data)>>
             IN  IF ~weather_data.ok
                 THEN Except(state, WeatherApology, weather_data.msg, "weather", looked)
                 ELSE LET response == FormatWeatherResponse(weather_data.val)
                          calls == looked \o <<Call("format_weather_response",
                                                    weather_data.val, response)>>
                      IN  IF ~response.ok
                          THEN Except(state, WeatherApology, response.msg, "weather",
                                      calls)
                          ELSE NodeResult(FALSE,
                                 [state EXCEPT !.response = response.val,
                                               !.route = "weather"], calls)

\* a variant that returns the query in lower case
ResultLowered(query, final_state) ==
    [query |-> Lower(query), response |-> final_state.response,
     route |-> final_state.route]

\* the dict process_query returns
ResultOf(query, final_state) ==
    [query |-> query, response |-> final_state.response, route |-> final_state.route]

\* a variant that does not store the answer
AnswerDropped(state, result) == [state EXCEPT !.route = "rag"]

\* the state after a RAG query that returned
Answered(state, result) ==
    [state EXCEPT !.response = result["answer"], !.route = "rag"]

\* AIAgent._handle_rag, given what the embedding service, the backend and the
\* language model do
HandleRag(state, backend, embed, srch, llm) ==
    LET result == RagQuery(backend, state.query, query_default_top_k, embed, srch, llm)
        calls == <<Call("rag_service.query", state.query, result.out)>> \o result.calls
    IN  IF ~result.out.ok
        THEN Except(state, RagApology, result.out.msg, "rag", calls)
        ELSE NodeResult(FALSE, Answered(state, result.out.val), calls)

(***************************************************************************)
(* vector_store.py: _ensure_collection and clear_collection.               *)
(***************************************************************************)
\* what a request to the backend can do: succeed, or fail with its effect
\* applied or not
BackendOutcomes == {
    [ok |-> TRUE, applied |-> TRUE, msg |-> ""],
    [ok |-> FALSE, applied |-> FALSE, msg |-> "timed out"],
    [ok |-> FALSE, applied |-> TRUE, msg |-> "timed out"] }

\* a variant in which the collection is not there after create_collection
NotCreated == [exists |-> FALSE, points |-> <<>>]

CreatedCollection == [exists |-> TRUE, points |-> <<>>]

DeletedCollection == [exists |-> FALSE, points |-> <<>>]

\* VectorStore._ensure_collection, given what get_collections and
\* create_collection do
EnsureCollection(backend, list, create) ==
    IF ~list.ok
    THEN [out |-> Raises(<<"Failed to ensure collection exists: ", list.msg>>),
          backend |-> backend]
    ELSE IF backend.exists THEN [out |-> Returns(<<>>), backend |-> backend]
    ELSE IF ~create.ok
    THEN [out |-> Raises(<<"Failed to ensure collection exists: ", create.msg>>),
          backend |-> IF create.applied THEN CreatedCollection ELSE backend]
    ELSE [out |-> Returns(<<>>), backend |-> CreatedCollection]

\* VectorStore.clear_collection, given what delete_collection, get_collections
\* and create_collection do
ClearCollection(backend, delete, list, create) ==
    IF ~delete.ok
    THEN [out |-> Raises(<<"Failed to clear collection: ", delete.msg>>),
          backend |-> IF delete.applied THEN DeletedCollection ELSE backend]
    ELSE LET ensured == EnsureCollection(DeletedCollection, list, create)
         IN  IF ~ensured.out.ok
             THEN [out |-> Raises(<<"Failed to clear collection: ">> \o ensured.out.msg),
                   backend |-> ensured.backend]
             ELSE [out |-> Returns(<<>>), backend |-> ensured.backend]

(***************************************************************************)
(* The inputs of the model.                                                *)
(***************************************************************************)

\* the concatenations of at most n fragments
RECURSIVE Concatenations(_)
Concatenations(n) ==
    LET Fragments == {
            <<"w","e","a","t","h","e","r"," ">>,
            <<"I","n"," ">>,
            <<"f","o","r"," ">>,
            <<"r","a","i","n">>,
            <<" ">>,
            <<"n","e","w"," ">>,
            <<"P","a","r","i","s">>,
            <<"?">> }
    IN  IF n = 0 THEN {<<>>}
        ELSE Concatenations(n - 1)
             \cup {q \o f : q \in Concatenations(n - 1), f \in Fragments}

Queries ==
    LET ExampleQueries == {
            <<"W","h","a","t","'","s"," ","t","h","e"," ","w","e","a","t","h","e","r"," ","i","n"," ","L","o","n","d","o","n","?">>,
            <<"T","e","m","p","e","r","a","t","u","r","e"," ","i","n"," ","N","e","w"," ","Y","o","r","k">>,
            <<"W","e","a","t","h","e","r"," ","f","o","r"," ","P","a","r","i","s">>,
            <<"T","e","l","l"," ","m","e"," ","a","b","o","u","t"," ","A","I">>,
            <<"W","h","a","t","'","s"," ","t","h","e"," ","w","e","a","t","h","e","r"," ","i","n"," ","P","u","n","e","?">>,
            <<"S","u","m","m","a","r","i","z","e"," ","t","h","e"," ","a","s","s","i","g","n","m","e","n","t">>,
            <<"w","e","a","t","h","e","r"," ","i","n"," ","T","o","k","y","o">>,
            <<"W","h","a","t"," ","i","s"," ","t","h","e"," ","d","e","a","d","l","i","n","e","?">>,
            <<"s","n","o","w"," ","f","o","r","e","c","a","s","t",","," ","h","u","m","i","d","i","t","y","!">>,
            <<"w","i","n","d","y"," ","c","l","i","m","a","t","e"," ","a","t"," ","s","t","."," ","l","o","u","i","s">>,
            <<"i","n"," ","l","o","n","d","o","n","?"," ",".">>,
            <<"W","e","a","t","h","e","r"," ","i","n","\t","S","a","n"," ","J","o","s","e",",">>,
            <<"h","o","w","'","s"," ","T","H","E"," ","W","E","A","T","H","E","R">>,
            <<"S","n","o","w","f","a","l","l"," ","T","O","M","O","R","R","O","W">>,
            <<"a","t"," "," ","l","o","s"," ","a","n","g","e","l","e","s"," ","!","?">> }
    IN  Concatenations(MaxFrags) \cup ExampleQueries

\* the questions put to the RAG service and to the store directly
Questions == {
    <<"T","e","l","l"," ","m","e"," ","a","b","o","u","t"," ","A","I">>,
    <<"W","h","a","t"," ","i","s"," ","t","h","e"," ","d","e","a","d","l","i","n","e","?">> }

\* the metadata a caller passes with a batch of texts: none, one dict per text,
\* one dict too few, or dicts that have a text entry of their own
MetadataKinds == {"none", "full", "short", "text"}

MetadatasOf(kind, n) ==
    IF kind = "none" THEN [none |-> TRUE, list |-> <<>>]
    ELSE [none |-> FALSE,
          list |-> [i \in 1..(IF kind = "short" /\ n > 0 THEN n - 1 ELSE n) |->
                      IF kind = "text"
                      THEN [source |-> "a.pdf", chunk_index |-> i - 1, text |-> "caption"]
                      ELSE [source |-> "a.pdf", chunk_index |-> i - 1]]]

\* the texts of the batches ingested by the model
StoreTexts == {TextA, TextB}

Batches == UNION {[1..n -> StoreTexts] : n \in 0..MaxBatch}

AllOk == [ok |-> TRUE, applied |-> TRUE, last_wins |-> TRUE, msg |-> ""]

\* the collection after a successful ingest of texts with one dict per text
Ingested(backend, texts) ==
    AddDocuments(backend, texts, MetadatasOf("full", Len(texts)), AllOk, AllOk).backend


(***************************************************************************)
(* The state.                                                              *)
(*   pc       where the running process_query is: idle, route (the entry   *)
(*            point), weather, rag (the node to run next), end, done       *)
(*            (returned), raised (an exception reached the caller); called *)
(*            after a direct call of a method                              *)
(*   query    the argument of the running process_query                    *)
(*   state    the AgentState passed along the graph                        *)
(*   result   the dict process_query returned                              *)
(*   nodes    the nodes the graph has run for this query, in order         *)
(*   calls    the calls made to the collaborators for this query           *)
(*   backend  the collection in the vector database                        *)
(*   ret      the last direct call of a method and what it returned        *)
(*   running  the concurrent calls of process_query, one record a thread   *)
(*   session  the Streamlit session of app.py: its session_state, where    *)
(*            the run of the script is, and what the run has displayed     *)
(***************************************************************************)
VARIABLES pc, query, state, result, nodes, calls, backend, ret, running, session

vars == <<pc, query, state, result, nodes, calls, backend, ret, running, session>>

NoResult == [query |-> <<>>, response |-> <<>>, route |-> "none"]

NoCall == [op |-> "none"]

Idle ==
    /\ pc = "idle"
    /\ query = <<>>
    /\ state = InitialState(<<>>)
    /\ result = NoResult
    /\ nodes = <<>>
    /\ calls = <<>>

\* the agent runs against a collection that is empty, or holds one document,
\* or four
Init ==
    /\ Idle
    /\ backend \in {EmptyBackend,
                    Ingested(EmptyBackend, <<TextC>>),
                    Ingested(EmptyBackend, <<TextA, TextC, TextB, TextC>>)}
    /\ ret = NoCall
    /\ running = <<>>
    /\ session = <<>>

\* nothing is running and the caller holds no result
AtRest == pc = "idle"

\* AIAgent.process_query is called: the initial state enters the graph
ProcessQuery(q) ==
    /\ AtRest
    /\ pc' = "route"
    /\ query' = q
    /\ state' = InitialState(q)
    /\ result' = NoResult
    /\ nodes' = <<>>
    /\ calls' = <<>>
    /\ ret' = NoCall
    /\ UNCHANGED <<backend, running, session>>

\* the entry node runs, and the conditional edge picks the next node
RouteNode ==
    /\ pc = "route"
    /\ state' = RouteQuery(state)
    /\ nodes' = Append(nodes, "route")
    /\ pc' = NextNode(state')
    /\ UNCHANGED <<query, result, calls, backend, ret, running, session>>

\* a handler node has run: on to END, or out of invoke with its exception
AfterNode(name, r) ==
    /\ state' = r.state
    /\ calls' = calls \o r.calls
    /\ nodes' = Append(nodes, name)
    /\ pc' = IF r.raised THEN "raised" ELSE "end"
    /\ UNCHANGED <<query, result, backend, ret, running, session>>

WeatherNode ==
    /\ pc = "weather"
    /\ \E http \in HttpOutcomes : AfterNode("weather", HandleWeather(state, http))

RagNode ==
    /\ pc = "rag"
    /\ \E embed \in EmbedOutcomes, llm \in LlmOutcomes :
       \E srch \in SearchOutcomes(backend, state.query, query_default_top_k) :
          AfterNode("rag", HandleRag(state, backend, embed, srch, llm))

\* the graph reached END: process_query returns
ReturnResult ==
    /\ pc = "end"
    /\ result' = ResultOf(query, state)
    /\ pc' = "done"
    /\ UNCHANGED <<query, state, nodes, calls, backend, ret, running, session>>

\* a method is called directly, as the tests do
DirectCall(r) ==
    /\ AtRest
    /\ pc' = "called"
    /\ ret' = r
    /\ UNCHANGED <<query, state, result, nodes, calls, running, session>>

\* the caller is done with what the last call returned
Forget ==
    /\ pc \in {"done", "raised", "called"}
    /\ pc' = "idle"
    /\ query' = <<>>
    /\ state' = InitialState(<<>>)
    /\ result' = NoResult
    /\ nodes' = <<>>
    /\ calls' = <<>>
    /\ ret' = NoCall
    /\ UNCHANGED <<backend, running, session>>

CallShouldUseWeather(q) ==
    /\ DirectCall([op |-> "_should_use_weather", arg |-> q, out |-> ShouldUseWeather(q)])
    /\ UNCHANGED backend

CallExtractCity(q) ==
    /\ DirectCall([op |-> "_extract_city_from_query", arg |-> q, out |-> ExtractCity(q)])
    /\ UNCHANGED backend

CallRagQuery(q) ==
    /\ \E embed \in EmbedOutcomes, llm \in LlmOutcomes :
       \E srch \in SearchOutcomes(backend, q, query_default_top_k) :
          LET r == RagQuery(backend, q, query_default_top_k, embed, srch, llm)
          IN  DirectCall([op |-> "query", arg |-> q, out |-> r.out, calls |-> r.calls])
    /\ UNCHANGED backend

Next ==
    \/ AtRest /\ \E q \in Queries : ProcessQuery(q)
    \/ RouteNode
    \/ WeatherNode
    \/ RagNode
    \/ ReturnResult
    \/ AtRest /\ \E q \in Queries : CallShouldUseWeather(q)
    \/ AtRest /\ \E q \in Queries : CallExtractCity(q)
    \/ AtRest /\ \E q \in Questions : CallRagQuery(q)
    \/ Forget

\* the agent: queries processed one after the other against a fixed collection
Spec == Init /\ [][Next]_vars

(***************************************************************************)
(* The vector store by itself: documents are ingested into, searched in    *)
(* and cleared from a collection that starts empty.                        *)
(***************************************************************************)
InitStore ==
    /\ Idle
    /\ backend = EmptyBackend
    /\ ret = NoCall
    /\ running = <<>>
    /\ session = <<>>

\* the last call was an add_documents that returned
JustIngested == pc = "called" /\ ret.op = "add_documents" /\ ret.out.ok

\* VectorStore.add_documents is called with a batch of texts, or called again
\* with the texts of the call that has just returned
CallAddDocuments(texts, kind) ==
    \* what the backend's upsert can do: succeed, or fail with the write applied or not
    LET UpsertOutcomes == {
            [ok |-> TRUE, applied |-> TRUE, last_wins |-> TRUE, msg |-> ""],
            [ok |-> TRUE, applied |-> TRUE, last_wins |-> FALSE, msg |-> ""],
            [ok |-> FALSE, applied |-> FALSE, last_wins |-> TRUE, msg |-> "timed out"],
            [ok |-> FALSE, applied |-> TRUE, last_wins |-> TRUE, msg |-> "timed out"] }
    IN  /\ AtRest \/ (JustIngested /\ texts = ret.texts)
        /\ \E embed \in EmbedOutcomes, upsert \in UpsertOutcomes :
              LET metadatas == MetadatasOf(kind, Len(texts))
                  r == AddDocuments(backend, texts, metadatas, embed, upsert)
              IN  /\ backend' = r.backend
                  /\ ret' = [op |-> "add_documents", texts |-> texts,
                             metadatas |-> metadatas, out |-> r.out,
                             after |-> r.metadatas, calls |-> r.calls,
                             before |-> backend.points,
                             again |-> JustIngested,
                             first_before |-> IF JustIngested THEN ret.before
                                              ELSE backend.points]
        /\ pc' = "called"
        /\ UNCHANGED <<query, state, result, nodes, calls, running, session>>

\* the last call was a clear_collection that returned
JustCleared == pc = "called" /\ ret.op = "clear_collection" /\ ret.out.ok

\* VectorStore.search is called, possibly right after a clear_collection
\* returned; ret keeps the collection it ran on (existed, on), whether the
\* embedding service and the backend answered (services_ok) and, after a
\* clear, the records the collection held before it (held)
CallSearch(q, top_k) ==
    /\ AtRest \/ JustCleared
    /\ \E embed \in EmbedOutcomes :
       \E srch \in SearchOutcomes(backend, q, top_k) :
          LET r == Search(backend, q, top_k, embed, srch)
          IN  ret' = [op |-> "search", arg |-> q, top_k |-> top_k, out |-> r.out,
                      calls |-> r.calls,
                      existed |-> backend.exists, on |-> backend.points,
                      services_ok |-> embed.ok /\ srch.ok,
                      cleared |-> JustCleared,
                      held |-> IF JustCleared THEN ret.before ELSE <<>>]
    /\ pc' = "called"
    /\ UNCHANGED <<query, state, result, nodes, calls, backend, running, session>>

\* VectorStore.clear_collection is called
CallClearCollection ==
    /\ AtRest
    /\ \E delete \in BackendOutcomes, list \in BackendOutcomes,
          create \in BackendOutcomes :
          LET r == ClearCollection(backend, delete, list, create)
          IN  /\ backend' = r.backend
              /\ ret' = [op |-> "clear_collection", out |-> r.out,
                         before |-> backend.points]
    /\ pc' = "called"
    /\ UNCHANGED <<query, state, result, nodes, calls, running, session>>

NextStore ==
    \/ \E texts \in Batches, kind \in MetadataKinds : CallAddDocuments(texts, kind)
    \/ \E q \in Questions, top_k \in {1, 2, query_default_top_k, search_default_top_k} :
          CallSearch(q, top_k)
    \/ CallClearCollection
    \/ Forget

SpecStore == InitStore /\ [][NextStore]_vars

(***************************************************************************)
(* pdf_processor.py.  A text is a sequence of pieces: a piece is one       *)
(* white-space character, or a word, a run of n characters none of which   *)
(* is white space.  The splitter is RecursiveCharacterTextSplitter with    *)
(* the arguments of PDFProcessor.__init__ and its defaults otherwise: the  *)
(* separators "\n\n", "\n", " " and "", each kept at the start of the      *)
(* split that follows it, and chunks stripped of white space.  No word of  *)
(* the model is as long as a chunk, so that the last separator, "", only   *)
(* ever splits a text that fits a chunk.                                   *)
(***************************************************************************)
CHUNK_SIZE == 1000

CHUNK_OVERLAP == 200

IsSpace(piece) == piece.s \in Whitespace

\* len(text)
RECURSIVE TextLen(_)
TextLen(text) == IF text = <<>> THEN 0 ELSE Head(text).n + TextLen(Tail(text))

\* text.strip()
RECURSIVE StripText(_)
StripText(text) ==
    IF text # <<>> /\ IsSpace(Head(text)) THEN StripText(Tail(text))
    ELSE IF text # <<>> /\ IsSpace(text[Len(text)])
    THEN StripText(SubSeq(text, 1, Len(text) - 1))
    ELSE text

\* the separators of the splitter, each the sequence of its characters
separators == << <<"\n", "\n">>, <<"\n">>, <<" ">>, <<>> >>

\* the separator occurs in the text at position i
OccursAt(separator, text, i) ==
    /\ i + Len(separator) - 1 <= Len(text)
    /\ \A j \in 1..Len(separator) : text[i + j - 1].s = separator[j]

\* re.search(separator, text)
Found(separator, text) == \E i \in 1..Len(text) : OccursAt(separator, text, i)

\* re.split with the separator captured, each separator joined to the text
\* that follows it: the splits found from position i on, cur being the split
\* under construction
RECURSIVE SplitFrom(_, _, _, _)
SplitFrom(text, separator, i, cur) ==
    IF i > Len(text) THEN <<cur>>
    ELSE IF OccursAt(separator, text, i)
    THEN <<cur>> \o SplitFrom(text, separator, i + Len(separator),
                              SubSeq(text, i, i + Len(separator) - 1))
    ELSE SplitFrom(text, separator, i + 1, Append(cur, text[i]))

\* _split_text_with_regex: the non-empty splits; the empty separator splits
\* the text into its characters, which the model keeps word by word
SplitWithRegex(text, separator) ==
    IF separator = <<>> THEN [i \in 1..Len(text) |-> <<text[i]>>]
    ELSE SelectSeq(SplitFrom(text, separator, 1, <<>>), LAMBDA sp : sp # <<>>)

\* "".join(docs)
RECURSIVE Concat(_)
Concat(docs) == IF docs = <<>> THEN <<>> ELSE Head(docs) \o Concat(Tail(docs))

\* _join_docs: the joined and stripped text, in a list that is empty when
\* nothing is left of it
JoinDocs(docs) ==
    LET text == StripText(Concat(docs))
    IN  IF text = <<>> THEN <<>> ELSE <<text>>

\* the while loop of _merge_splits: splits leave the front of current_doc
\* until what stays is no longer than the overlap and leaves room for the
\* next split of length len
RECURSIVE DropFront(_, _)
DropFront(current_doc, len) ==
    LET total == TextLen(Concat(current_doc))
    IN  IF total > CHUNK_OVERLAP \/ (total + len > CHUNK_SIZE /\ total > 0)
        THEN DropFront(Tail(current_doc), len)
        ELSE current_doc

\* _merge_splits from split i on, with the separator "" of keep_separator
RECURSIVE MergeFrom(_, _, _)
MergeFrom(splits, i, current_doc) ==
    IF i > Len(splits) THEN JoinDocs(current_doc)
    ELSE LET d == splits[i]
             total == TextLen(Concat(current_doc))
         IN  IF total + TextLen(d) > CHUNK_SIZE /\ current_doc # <<>>
             THEN JoinDocs(current_doc)
                  \o MergeFrom(splits, i + 1,
                               Append(DropFront(current_doc, TextLen(d)), d))
             ELSE MergeFrom(splits, i + 1, Append(current_doc, d))

\* the position in a list of separators of the first that is "" or occurs in
\* the text
RECURSIVE FirstSeparator(_, _, _)
FirstSeparator(text, seps, i) ==
    IF i >= Len(seps) THEN Len(seps)
    ELSE IF seps[i] = <<>> \/ Found(seps[i], text) THEN i
    ELSE FirstSeparator(text, seps, i + 1)

\* RecursiveCharacterTextSplitter._split_text, and its loop over the splits
\* from split k on, good being _good_splits
RECURSIVE SplitTextWith(_, _)
RECURSIVE SplitLoop(_, _, _, _)
SplitLoop(splits, k, good, new_separators) ==
    IF k > Len(splits)
    THEN IF good # <<>> THEN MergeFrom(good, 1, <<>>) ELSE <<>>
    ELSE IF TextLen(splits[k]) < CHUNK_SIZE
    THEN SplitLoop(splits, k + 1, Append(good, splits[k]), new_separators)
    ELSE (IF good # <<>> THEN MergeFrom(good, 1, <<>>) ELSE <<>>)
         \o (IF new_separators = <<>> THEN <<splits[k]>>
             ELSE SplitTextWith(splits[k], new_separators))
         \o SplitLoop(splits, k + 1, <<>>, new_separators)

SplitTextWith(text, seps) ==
    LET i == FirstSeparator(text, seps, 1)
        separator == seps[i]
        new_separators == IF separator = <<>> THEN <<>>
                          ELSE SubSeq(seps, i + 1, Len(seps))
    IN  SplitLoop(SplitWithRegex(text, separator), 1, <<>>, new_separators)

\* {"chunk_index": idx, "total_chunks": len(chunks), **(metadata or {})}: an
\* entry of the caller's dict replaces the entry of the same key; the
\* metadata argument is None (none) or a dict
ChunkMetadata(idx, total, metadata) ==
    LET own == [chunk_index |-> idx, total_chunks |-> total]
        given == IF metadata.none THEN <<>> ELSE metadata.dict
    IN  [k \in DOMAIN own \cup DOMAIN given |->
            IF k \in DOMAIN given THEN given[k] ELSE own[k]]

\* PDFProcessor.chunk_text
ChunkText(text, metadata) ==
    LET chunks == SplitTextWith(text, separators)
    IN  [i \in 1..Len(chunks) |->
            [text |-> chunks[i],
             metadata |-> ChunkMetadata(i - 1, Len(chunks), metadata)]]

(***************************************************************************)
(* The chunker, and the ingestion path: texts are chunked, and batches of   *)
(* texts are added to a collection that starts empty.                      *)
(***************************************************************************)
\* the sequences of at most n pieces; a piece is a space, a newline, or a
\* word of 400, 700 or 150 characters
RECURSIVE TextsOf(_)
TextsOf(n) ==
    IF n = 0 THEN {<<>>}
    ELSE TextsOf(n - 1)
         \cup {Append(t, p) : t \in TextsOf(n - 1),
                              p \in {[s |-> " ", n |-> 1], [s |-> "\n", n |-> 1],
                                     [s |-> "alpha", n |-> 400],
                                     [s |-> "beta", n |-> 700],
                                     [s |-> "gamma", n |-> 150]}}

\* the texts of the model: a word is a whole run, so no word follows a word
ChunkTexts ==
    {t \in TextsOf(MaxPieces) :
        \A i \in 1..(Len(t) - 1) : IsSpace(t[i]) \/ IsSpace(t[i + 1])}

\* the metadata given to chunk_text: None, an empty dict, the dict of
\* process_pdf, and dicts with a chunk_index or total_chunks entry
ChunkMetadatas ==
    {[none |-> TRUE, dict |-> <<>>]}
    \cup {[none |-> FALSE, dict |-> d] : d \in {
            <<>>,
            [source |-> "a.pdf", file_path |-> "uploads/a.pdf"],
            [chunk_index |-> 7],
            [source |-> "a.pdf", total_chunks |-> 0] }}

\* PDFProcessor.chunk_text is called
CallChunkText(text, metadata) ==
    /\ DirectCall([op |-> "chunk_text", text |-> text, metadata |-> metadata,
                   out |-> Returns(ChunkText(text, metadata))])
    /\ UNCHANGED backend

NextChunk ==
    \/ AtRest /\ \E text \in ChunkTexts, metadata \in ChunkMetadatas :
          CallChunkText(text, metadata)
    \/ Forget

\* the chunker by itself, on every text of the model
SpecChunk == InitStore /\ [][NextChunk]_vars

\* on the ingestion path the texts chunked are the empty text and the texts
\* of one or two pieces
NextIngest ==
    \/ AtRest /\ \E text \in {t \in ChunkTexts : Len(t) <= 2},
                     metadata \in ChunkMetadatas :
          CallChunkText(text, metadata)
    \/ \E texts \in Batches, kind \in MetadataKinds : CallAddDocuments(texts, kind)
    \/ Forget

\* chunking and adding, in any order, on a collection that starts empty
SpecIngest == InitStore /\ [][NextIngest]_vars

(***************************************************************************)
(* The weather service by itself: lookups, and reports formatted from the  *)
(* record a lookup returned or from a record the caller built.             *)
(***************************************************************************)
UnitSystems == {"metric", "imperial"}

\* the JSON documents of the service: with a visibility in metres or without
\* one, with a wind speed or without one, with a temperature or with null
WeatherPayloads ==
    LET withVisibility == {[GoodData EXCEPT !.visibility = v] : v \in {0, 240, 6500, 10000}}
        visibilities == withVisibility \cup {Without(GoodData, "visibility")}
        winds == visibilities
                 \cup {Without(d, "wind_speed") : d \in visibilities}
                 \cup {[d EXCEPT !.wind_speed = 0] : d \in visibilities}
    IN  winds \cup {[d EXCEPT !.temp = <<>>] : d \in winds}

\* the records a caller gives the formatter directly: complete ones, and ones
\* without a visibility or a wind_speed entry
DirectRecords ==
    LET complete == {WeatherRecord(d, u) : d \in {GoodData, [GoodData EXCEPT !.visibility = 0]},
                                           u \in UnitSystems}
                    \cup {[WeatherRecord(GoodData, "metric") EXCEPT !.visibility = <<0>>]}
    IN  complete \cup {Without(r, "visibility") : r \in complete}
                 \cup {Without(r, "wind_speed") : r \in complete}

\* WeatherService.get_weather is called
CallGetWeather(city, units, http) ==
    /\ DirectCall([op |-> "get_weather", city |-> city, units |-> units,
                   http |-> http, out |-> GetWeather(city, units, http)])
    /\ UNCHANGED backend

\* the last call was a get_weather that returned
JustLooked == pc = "called" /\ ret.op = "get_weather" /\ ret.out.ok

\* WeatherService.format_weather_response is called, with a record of the
\* caller or with the record the get_weather before it returned; ret then
\* keeps the JSON document of that lookup
CallFormatWeatherResponse(weather_data) ==
    /\ AtRest \/ (JustLooked /\ weather_data = ret.out.val)
    /\ pc' = "called"
    /\ ret' = [op |-> "format_weather_response", arg |-> weather_data,
               out |-> FormatWeatherResponse(weather_data),
               after_lookup |-> JustLooked,
               payload |-> IF JustLooked THEN ret.http.data ELSE <<>>]
    /\ UNCHANGED <<query, state, result, nodes, calls, backend, running, session>>

NextWeather ==
    \/ AtRest /\ \E city \in {<<"T","o","k","y","o">>, <<"N","e","w"," ","Y","o","r","k">>},
                     units \in UnitSystems,
                     http \in HttpOutcomes \cup {[kind |-> "json", msg |-> "", data |-> d] :
                                                    d \in WeatherPayloads} :
          CallGetWeather(city, units, http)
    \/ \E weather_data \in DirectRecords \cup (IF JustLooked THEN {ret.out.val} ELSE {}) :
          CallFormatWeatherResponse(weather_data)
    \/ Forget

SpecWeather == InitStore /\ [][NextWeather]_vars

(***************************************************************************)
(* The index under every operation that reaches it: documents are added,   *)
(* the collection is searched and cleared, and questions are put to the    *)
(* RAG service and to the agent.                                           *)
(***************************************************************************)
\* the queries put to the agent: one for each handler
NextIndex ==
    \/ \E texts \in Batches, kind \in {"none", "full"} : CallAddDocuments(texts, kind)
    \/ \E q \in Questions : CallSearch(q, query_default_top_k)
    \/ CallClearCollection
    \/ AtRest /\ \E q \in Questions : CallRagQuery(q)
    \/ AtRest /\ \E q \in {
            <<"W","h","a","t"," ","i","s"," ","t","h","e"," ","d","e","a","d","l","i","n","e","?">>,
            <<"W","e","a","t","h","e","r"," ","f","o","r"," ","P","a","r","i","s">> } :
          ProcessQuery(q)
    \/ RouteNode
    \/ WeatherNode
    \/ RagNode
    \/ ReturnResult
    \/ Forget

SpecIndex == InitStore /\ [][NextIndex]_vars

(***************************************************************************)
(* Concurrent calls of process_query on one agent.  Each thread has its    *)
(* own call of process_query and so its own query argument, its own state  *)
(* dict in graph.invoke and its own calls to the collaborators; the agent  *)
(* object and the collection are shared and no step writes them.  A thread *)
(* that has returned calls again.                                          *)
(***************************************************************************)
Threads == 1..MaxThreads

\* a thread that is not in process_query
IdleThread ==
    [pc |-> "idle", query |-> <<>>, state |-> InitialState(<<>>),
     result |-> NoResult, nodes |-> <<>>, calls |-> <<>>, overlapped |-> FALSE]

InitConcurrent ==
    /\ Idle
    /\ backend = Ingested(EmptyBackend, <<TextC>>)
    /\ ret = NoCall
    /\ running = [t \in Threads |-> IdleThread]
    /\ session = <<>>

\* thread t takes a step that leaves it as next
ThreadStep(t, next) ==
    /\ running' = [running EXCEPT ![t] = next]
    /\ UNCHANGED <<pc, query, state, result, nodes, calls, backend, ret, session>>

\* thread t calls process_query: its initial state enters the graph;
\* overlapped notes whether another thread is inside process_query then
TProcessQuery(t, q) ==
    /\ running[t].pc = "idle"
    /\ ThreadStep(t, [pc |-> "route", query |-> q, state |-> InitialState(q),
                      result |-> NoResult, nodes |-> <<>>, calls |-> <<>>,
                      overlapped |-> \E u \in Threads \ {t} :
                          running[u].pc \in {"route", "weather", "rag", "end"}])

\* the entry node of thread t's run, and its conditional edge
TRouteNode(t) ==
    /\ running[t].pc = "route"
    /\ LET routed == RouteQuery(running[t].state)
       IN  ThreadStep(t, [running[t] EXCEPT !.state = routed,
                                            !.nodes = Append(@, "route"),
                                            !.pc = NextNode(routed)])

\* a handler node of thread t's run has run
TAfterNode(t, name, r) ==
    ThreadStep(t, [running[t] EXCEPT !.state = r.state,
                                     !.calls = @ \o r.calls,
                                     !.nodes = Append(@, name),
                                     !.pc = IF r.raised THEN "raised" ELSE "end"])

\* the HTTP request of a thread's lookup raises, or delivers a document the
\* formatter accepts or one it raises on
TWeatherNode(t) ==
    /\ running[t].pc = "weather"
    /\ \E http \in {h \in HttpOutcomes :
            h.kind = "json" => h.data \in {GoodData, [GoodData EXCEPT !.temp = <<>>]}} :
          TAfterNode(t, "weather", HandleWeather(running[t].state, http))

TRagNode(t) ==
    /\ running[t].pc = "rag"
    /\ \E embed \in EmbedOutcomes, llm \in LlmOutcomes :
       \E srch \in SearchOutcomes(backend, running[t].state.query, query_default_top_k) :
          TAfterNode(t, "rag", HandleRag(running[t].state, backend, embed, srch, llm))

\* thread t's run reached END: its process_query returns
TReturnResult(t) ==
    /\ running[t].pc = "end"
    /\ ThreadStep(t, [running[t] EXCEPT
                        !.result = ResultOf(running[t].query, running[t].state),
                        !.pc = "done"])

\* thread t is done with the result of its call
TForget(t) ==
    /\ running[t].pc \in {"done", "raised"}
    /\ ThreadStep(t, IdleThread)

\* the queries of the threads: a city to look up in mixed case, weather
\* without a city in upper case, and a question for the documents
NextConcurrent ==
    \E t \in Threads :
        \/ \E q \in {
                <<"W","e","a","t","h","e","r"," ","f","o","r"," ","P","a","r","i","s">>,
                <<"h","o","w","'","s"," ","T","H","E"," ","W","E","A","T","H","E","R">>,
                <<"W","h","a","t"," ","i","s"," ","t","h","e"," ","d","e","a","d","l","i","n","e","?">> } :
              TProcessQuery(t, q)
        \/ TRouteNode(t)
        \/ TWeatherNode(t)
        \/ TRagNode(t)
        \/ TReturnResult(t)
        \/ TForget(t)

SpecConcurrent == InitConcurrent /\ [][NextConcurrent]_vars

(***************************************************************************)
(* The Streamlit application: a session is a sequence of runs of the       *)
(* script, each begun by an event of the page. A run initialises the       *)
(* services when the session has no agent, stops when that fails, and      *)
(* otherwise renders the chat and answers the prompt that began it.        *)
(***************************************************************************)
\* a variant that accepts a missing key
KeyNeverRequired(api_key, configured) == Returns(configured)

\* WeatherService.__init__, with the api_key argument and the configured
\* OPENWEATHERMAP_API_KEY: each is None (none) or a string, and None and the
\* empty string are both false
WeatherServiceInit(api_key, configured) ==
    LET falsy(k) == k.none \/ k.val = ""
        key == IF falsy(api_key) THEN configured ELSE api_key
    IN  IF falsy(key) THEN Raises(<<"OpenWeatherMap API key is required">>)
        ELSE Returns(key)

\* the keys a caller passes or the environment holds
ApiKeys == {[none |-> TRUE, val |-> ""], [none |-> FALSE, val |-> ""],
            [none |-> FALSE, val |-> "owm-key"]}

\* initialize_services: WeatherService(), VectorStore() (its clients, which
\* need the OpenAI key, then _ensure_collection), RAGService and AIAgent
\* (which need the OpenAI key); any exception is shown and False returned
InitializeServices(configured, collection, openai, list, create) ==
    LET weather_service == WeatherServiceInit([none |-> TRUE, val |-> ""], configured)
        ensured == EnsureCollection(collection, list, create)
        failed(msg, b) ==
            [ok |-> FALSE, error |-> <<"Error initializing services: ">> \o msg,
             backend |-> b]
    IN  IF ~weather_service.ok THEN failed(weather_service.msg, collection)
        ELSE IF ~openai.ok THEN failed(<<openai.msg>>, collection)
        ELSE IF ~ensured.out.ok THEN failed(ensured.out.msg, ensured.backend)
        ELSE [ok |-> TRUE, error |-> <<>>, backend |-> ensured.backend]

\* a variant without the try block
EvaluateResponseUnguarded(prompt, response, route, client) ==
    [out |-> IF client.configured /\ client.create_run = "raises"
             THEN Raises(<<"Connection refused">>) ELSE Returns(<<>>),
     calls |-> <<>>]

\* ResponseEvaluator.evaluate_response: its outcome and the calls it made to
\* the client; None is the empty sequence, and the dict of _evaluate_quality
\* is not computed
EvaluateResponse(prompt, response, route, client) ==
    LET run == Call("create_run",
                    [name |-> <<route, "_query">>, inputs |-> prompt,
                     outputs |-> [response |-> response, route |-> route]],
                    IF client.create_run = "raises" THEN Raises(<<"Connection refused">>)
                    ELSE IF client.create_run = "none" THEN Returns(<<>>)
                    ELSE Returns(<<"run-1">>))
        feedback == Call("create_feedback", <<"run-1">>,
                         IF client.create_feedback = "raises"
                         THEN Raises(<<"Connection refused">>) ELSE Returns(<<>>))
    IN  IF ~client.configured THEN [out |-> Returns(<<>>), calls |-> <<>>]
        ELSE IF ~run.out.ok THEN [out |-> Returns(<<>>), calls |-> <<run>>]
        ELSE IF run.out.val = <<>>
        THEN [out |-> Returns(<<[run_id |-> <<>>, evaluation |-> "evaluation"]>>),
              calls |-> <<run>>]
        ELSE IF ~feedback.out.ok THEN [out |-> Returns(<<>>), calls |-> <<run, feedback>>]
        ELSE [out |-> Returns(<<[run_id |-> <<"run-1">>, evaluation |-> "evaluation"]>>),
              calls |-> <<run, feedback>>]

\* the collection does not exist yet, or holds a document
InitApp ==
    \* the session_state of a new session, in a process configured with a key:
    \* at is where the run of the script is (waiting for an event between runs),
    \* prompt the prompt that began the run, chat_input whether the last run
    \* rendered the chat input, shown what the run displayed in the chat,
    \* evaluation what the evaluation of the run's answer did, and initialized
    \* whether initialize_services has returned True in the session; the dash
    \* of last_route is written "-"
    LET NewSession(configured) ==
            [key |-> configured, agent |-> FALSE, messages |-> <<>>,
             last_route |-> "-", route_stats |-> [weather |-> 0, rag |-> 0],
             at |-> "waiting", prompt |-> <<>>, prompts |-> 0, chat_input |-> FALSE,
             shown |-> <<>>, evaluation |-> [ran |-> FALSE], initialized |-> FALSE]
    IN  /\ Idle
        /\ backend \in {DeletedCollection, Ingested(EmptyBackend, <<TextC>>)}
        /\ ret = NoCall
        /\ running = <<>>
        /\ session \in {NewSession(k) : k \in ApiKeys}

\* an event of the page begins a run of the script: a prompt submitted in
\* the chat input the last run rendered, or another event (no prompt)
AppRerun(prompt) ==
    /\ session.at = "waiting"
    /\ AtRest
    /\ prompt # <<>> => session.chat_input /\ session.prompts < MaxPrompts
    /\ session' = [session EXCEPT !.at = "init", !.prompt = prompt,
                                  !.prompts = IF prompt # <<>> THEN @ + 1 ELSE @,
                                  !.shown = <<>>,
                                  !.evaluation = [ran |-> FALSE]]
    /\ UNCHANGED <<pc, query, state, result, nodes, calls, backend, ret, running>>

\* `if st.session_state.agent is None`: the services are initialised, and
\* the run stops when that fails
AppInitialize ==
    /\ session.at = "init"
    /\ IF session.agent
       THEN /\ session' = [session EXCEPT !.at = "chat"]
            /\ UNCHANGED backend
       ELSE \E openai \in EmbedOutcomes, list \in BackendOutcomes,
               create \in BackendOutcomes :
               LET r == InitializeServices(session.key, backend, openai, list, create)
               IN  /\ backend' = r.backend
                   /\ session' =
                        IF r.ok
                        THEN [session EXCEPT !.agent = TRUE, !.initialized = TRUE,
                                             !.at = "chat"]
                        ELSE [session EXCEPT !.at = "waiting", !.prompt = <<>>,
                                             !.chat_input = FALSE,
                                             !.shown = <<[error |-> r.error]>>]
    /\ UNCHANGED <<pc, query, state, result, nodes, calls, ret, running>>

\* the chat tab: the chat input is rendered, and a prompt is added to the
\* history
AppChat ==
    /\ session.at = "chat"
    /\ session' =
         IF session.prompt = <<>>
         THEN [session EXCEPT !.at = "waiting", !.chat_input = TRUE]
         ELSE [session EXCEPT !.at = "asking", !.chat_input = TRUE,
                              !.messages = Append(@, [role |-> "user",
                                                      content |-> session.prompt])]
    /\ UNCHANGED <<pc, query, state, result, nodes, calls, backend, ret, running>>

\* st.session_state.agent.process_query(prompt)
AppProcessQuery ==
    /\ session.at = "asking"
    /\ ProcessQuery(session.prompt)

\* process_query has returned: the response and the route are displayed, the
\* evaluator is constructed and called with whatever it does swallowed, and
\* the answer is added to the history
AppAnswer ==
    \* what the LangSmith client of the evaluator does: it is not configured, or
    \* create_run raises, returns None or returns a run, and create_feedback
    \* raises or not
    LET EvaluatorClients ==
            {[configured |-> FALSE, create_run |-> "run", create_feedback |-> "ok"]}
            \cup {[configured |-> TRUE, create_run |-> r, create_feedback |-> f] :
                    r \in {"raises", "none"}, f \in {"ok"}}
            \cup {[configured |-> TRUE, create_run |-> "run", create_feedback |-> f] :
                    f \in {"ok", "raises"}}
    IN  /\ session.at = "asking"
        /\ pc = "done"
        /\ \E constructed \in BOOLEAN, client \in EvaluatorClients :
              session' = [session EXCEPT
                  !.last_route = result.route,
                  !.route_stats = IF result.route \in DOMAIN @
                                  THEN [@ EXCEPT ![result.route] = @ + 1] ELSE @,
                  !.shown = <<[response |-> result.response, route |-> result.route]>>,
                  !.evaluation =
                      IF constructed
                      THEN [ran |-> TRUE, client |-> client,
                            out |-> EvaluateResponse(session.prompt, result.response,
                                                     result.route, client).out]
                      ELSE [ran |-> FALSE],
                  !.messages = Append(@, [role |-> "assistant",
                                          content |-> result.response,
                                          route |-> result.route]),
                  !.at = "answered"]
        /\ UNCHANGED <<pc, query, state, result, nodes, calls, backend, ret, running>>

\* the run of the script ends
AppEnd ==
    /\ session.at = "answered"
    /\ session' = [session EXCEPT !.at = "waiting", !.prompt = <<>>]
    /\ pc' = "idle"
    /\ query' = <<>>
    /\ state' = InitialState(<<>>)
    /\ result' = NoResult
    /\ nodes' = <<>>
    /\ calls' = <<>>
    /\ UNCHANGED <<backend, ret, running>>

\* WeatherService(api_key) is constructed directly, as the tests do
CallWeatherService(api_key) ==
    /\ session.at = "waiting"
    /\ DirectCall([op |-> "WeatherService", arg |-> api_key, configured |-> session.key,
                   out |-> WeatherServiceInit(api_key, session.key)])
    /\ UNCHANGED backend

\* the prompts: weather for a city, weather without a city, and a question
\* for the documents
NextApp ==
    \/ \E prompt \in {<<>>,
            <<"W","e","a","t","h","e","r"," ","f","o","r"," ","P","a","r","i","s">>,
            <<"h","o","w","'","s"," ","T","H","E"," ","W","E","A","T","H","E","R">>,
            <<"W","h","a","t"," ","i","s"," ","t","h","e"," ","d","e","a","d","l","i","n","e","?">>} :
          AppRerun(prompt)
    \/ AppInitialize
    \/ AppChat
    \/ AppProcessQuery
    \/ RouteNode
    \/ WeatherNode
    \/ RagNode
    \/ ReturnResult
    \/ AppAnswer
    \/ AppEnd
    \/ \E api_key \in ApiKeys : CallWeatherService(api_key)
    \/ session.at = "waiting" /\ Forget

SpecApp == InitApp /\ [][NextApp]_vars

(***************************************************************************)
(* One collection shared by several VectorStore objects, as the sessions   *)
(* and the uploads of the application share it: each thread constructs a   *)
(* VectorStore and calls its methods, one call to the backend a step.      *)
(* A record of running holds where its thread is (new: no object; list,    *)
(* create: inside _ensure_collection; ready: between calls), the method    *)
(* it is in or has left (op) and how that ended (out), whether a call to   *)
(* the backend failed by itself in it (fault), and whether a constructor   *)
(* of the thread has returned (initialised).                               *)
(***************************************************************************)

InitShared ==
    LET NewStore ==
            [pc |-> "new", op |-> "none", out |-> Returns(<<>>), fault |-> FALSE,
             initialised |-> FALSE]
    IN  /\ Idle
        /\ backend = DeletedCollection
        /\ ret = NoCall
        /\ running = [t \in Threads |-> NewStore]
        /\ session = <<>>

\* a step of thread t that leaves it as next and the collection as stored
SharedStep(t, next, stored) ==
    /\ running' = [running EXCEPT ![t] = next]
    /\ backend' = stored
    /\ UNCHANGED <<pc, query, state, result, nodes, calls, ret, session>>

\* thread t leaves _ensure_collection with an exception: out of the
\* constructor there is no object, out of clear_collection the exception is
\* wrapped once more
EnsureRaised(t, op, msg, fault) ==
    [running[t] EXCEPT
        !.pc = IF op = "init" THEN "new" ELSE "ready",
        !.op = op,
        !.out = Raises((IF op = "clear" THEN <<"Failed to clear collection: ">> ELSE <<>>)
                       \o <<"Failed to ensure collection exists: ", msg>>),
        !.fault = fault]

\* thread t leaves _ensure_collection normally
EnsureReturned(t, op) ==
    [running[t] EXCEPT !.pc = "ready", !.op = op, !.out = Returns(<<>>),
                       !.initialised = @ \/ op = "init"]

\* client.get_collections() in _ensure_collection, called by the constructor
\* (new) or by clear_collection after its delete (list), and the test of
\* the name against the list
GetCollections(t) ==
    /\ running[t].pc \in {"new", "list"}
    /\ LET op == IF running[t].pc = "new" THEN "init" ELSE "clear"
           before == running[t].pc = "list" /\ running[t].fault
       IN  \E list \in {o \in BackendOutcomes : o.ok \/ ~o.applied} :
              SharedStep(t,
                  IF ~list.ok THEN EnsureRaised(t, op, list.msg, TRUE)
                  ELSE IF backend.exists THEN EnsureReturned(t, op)
                  ELSE [running[t] EXCEPT !.pc = "create", !.op = op, !.fault = before],
                  backend)

\* client.create_collection(...) in _ensure_collection: the backend refuses
\* to create a collection that exists
CreateCollection(t) ==
    /\ running[t].pc = "create"
    /\ IF backend.exists
       THEN SharedStep(t, EnsureRaised(t, running[t].op, "Collection already exists",
                                       running[t].fault), backend)
       ELSE \E create \in BackendOutcomes :
               SharedStep(t,
                   IF create.ok THEN EnsureReturned(t, running[t].op)
                   ELSE EnsureRaised(t, running[t].op, create.msg, TRUE),
                   IF create.applied THEN CreatedCollection ELSE backend)

\* clear_collection begins: client.delete_collection(...)
DeleteCollection(t) ==
    /\ running[t].pc = "ready"
    /\ \E delete \in BackendOutcomes :
          SharedStep(t,
              IF delete.ok
              THEN [running[t] EXCEPT !.pc = "list", !.op = "clear", !.fault = FALSE]
              ELSE [running[t] EXCEPT
                      !.op = "clear", !.fault = TRUE,
                      !.out = Raises(<<"Failed to clear collection: ", delete.msg>>)],
              IF delete.applied THEN DeletedCollection ELSE backend)

\* search is called on the object of thread t, the embedding service answering
SharedSearch(t) ==
    /\ running[t].pc = "ready"
    /\ \E q \in Questions :
       \E srch \in SearchOutcomes(backend, q, query_default_top_k) :
          SharedStep(t,
              [running[t] EXCEPT
                 !.op = "search",
                 !.fault = backend.exists /\ ~srch.ok,
                 !.out = Search(backend, q, query_default_top_k,
                                [ok |-> TRUE, msg |-> ""], srch).out],
              backend)

\* add_documents is called on the object of thread t with one text, the
\* embedding service and the upsert answering
SharedAddDocuments(t) ==
    /\ running[t].pc = "ready"
    /\ \E text \in {TextA, TextC} :
          LET r == AddDocuments(backend, <<text>>, MetadatasOf("full", 1), AllOk, AllOk)
          IN  SharedStep(t, [running[t] EXCEPT !.op = "add_documents", !.fault = FALSE,
                                               !.out = r.out],
                         r.backend)

NextShared ==
    \E t \in Threads :
        \/ GetCollections(t)
        \/ CreateCollection(t)
        \/ DeleteCollection(t)
        \/ SharedSearch(t)
        \/ SharedAddDocuments(t)

SpecShared == InitShared /\ [][NextShared]_vars

(***************************************************************************)
(* The properties.                                                         *)
(***************************************************************************)
\* the query has been through its handler node
Handled == pc \in {"end", "done"}

\* the only call to fn made for the running query
TheCall(fn) == calls[CHOOSE i \in CallsTo(calls, fn) : TRUE]

Called(fn) == CallsTo(calls, fn) # {}

CalledOnce(fn) == Cardinality(CallsTo(calls, fn)) = 1

\* C1: process_query never raises to its caller, and what it returns holds a
\* response string and a route that is weather or rag, never the initial
\* empty route, whatever the query and whatever the collaborators do.
C1_AlwaysAnswers ==
    /\ pc # "raised"
    /\ pc = "done" =>
          /\ result.route \in {"weather", "rag"}
          /\ result.response \in Seq(STRING)
          /\ DOMAIN result = {"query", "response", "route"}

\* C1 witness: a query has returned although a collaborator raised
C1_Witness ==
    /\ pc = "done"
    /\ \E i \in DOMAIN calls : ~calls[i].out.ok

WeatherVocabulary == {
    <<"w","e","a","t","h","e","r">>,
    <<"t","e","m","p","e","r","a","t","u","r","e">>,
    <<"f","o","r","e","c","a","s","t">>,
    <<"h","u","m","i","d","i","t","y">>,
    <<"w","i","n","d">>,
    <<"r","a","i","n">>,
    <<"s","n","o","w">>,
    <<"c","l","i","m","a","t","e">> }

\* C2: the classifier returns weather exactly when the lower-cased query has a
\* keyword of the weather vocabulary as a substring, and rag otherwise, for
\* every query, the empty one included.
C2_ClassifierTotal ==
    ret.op = "_should_use_weather" =>
        ret.out = IF \E k \in WeatherVocabulary : Contains(k, Lower(ret.arg))
                  THEN "weather" ELSE "rag"

\* C2 witness: a query classified weather whose keyword is written with an
\* upper-case letter, and none of whose words is a keyword by itself
C2_Witness ==
    /\ ret.op = "_should_use_weather"
    /\ ret.out = "weather"
    /\ ~\E k \in WeatherVocabulary : Contains(k, ret.arg)
    /\ \A i \in DOMAIN SplitWords(Lower(ret.arg)) :
          SplitWords(Lower(ret.arg))[i] \notin WeatherVocabulary

\* C3: a run of process_query runs the route node first, which changes
\* nothing in the state, then exactly one handler, the weather handler if and
\* only if the classifier returned weather for the query, and then ends.
C3_OneHandler ==
    /\ pc = "route" => nodes = <<>>
    /\ pc \in {"weather", "rag"} =>
          /\ nodes = <<"route">>
          /\ state = InitialState(query)
          /\ pc = "weather" <=> ShouldUseWeather(query) = "weather"
    /\ Handled =>
          /\ Len(nodes) = 2
          /\ nodes[1] = "route"
          /\ nodes[2] = ShouldUseWeather(query)

\* C3 witness: a run that ended after the route node and the rag handler
C3_Witness == pc = "done" /\ nodes = <<"route", "rag">>

\* the route of the handler that calls fn
RouteOf(fn) == IF fn = "rag_service.query" THEN "rag" ELSE "weather"

ApologyOf(fn) ==
    IF fn = "rag_service.query"
    THEN "Sorry, I encountered an error processing your query: "
    ELSE "Sorry, I encountered an error fetching weather data: "

\* C4: when the component a handler delegates to raises with message m, the
\* response is the handler's apology followed by m and the route is the
\* handler's own route.
C4_ApologyCarriesError ==
    Handled =>
        \A i \in DOMAIN calls :
            (/\ calls[i].fn \in {"get_weather", "format_weather_response",
                                 "rag_service.query"}
             /\ ~calls[i].out.ok)
            => /\ state.response = <<ApologyOf(calls[i].fn)>> \o calls[i].out.msg
               /\ Contains(calls[i].out.msg, state.response)
               /\ calls[i].out.msg # <<>>
               /\ state.route = RouteOf(calls[i].fn)
               /\ pc = "done" => /\ result.response = state.response
                                 /\ result.route = state.route

\* C4 witness: the formatter raised and the query returned
C4_Witness ==
    /\ pc = "done"
    /\ Called("format_weather_response")
    /\ ~TheCall("format_weather_response").out.ok

Anchors == <<
    <<"i","n"," ">>,
    <<"f","o","r"," ">>,
    <<"a","t"," ">>,
    <<"w","e","a","t","h","e","r"," ">>,
    <<"t","e","m","p","e","r","a","t","u","r","e"," ">> >>

CityPrefixes == {
    <<"n","e","w">>, <<"s","a","n">>, <<"l","o","s">>,
    <<"s","a","i","n","t">>, <<"s","t">> }

\* the anchors that occur in a lower-cased query
Occurring(ql) == {i \in DOMAIN Anchors : Contains(Anchors[i], ql)}

FirstAnchor(ql) == Anchors[CHOOSE i \in Occurring(ql) : \A j \in Occurring(ql) : i <= j]

\* the words after the first occurrence of the first anchor that occurs
ReferenceWords(ql) ==
    SplitWords(RStrip(Strip(AfterFirst(FirstAnchor(ql), ql)), {"?", ".", ",", "!"}))

ReferenceCity(words) ==
    Title(IF Len(words) >= 2 /\ words[1] \in CityPrefixes
          THEN words[1] \o <<" ">> \o words[2] ELSE words[1])

\* C5: the city extractor returns the empty string when no anchor occurs in
\* the lower-cased query; when the text after the first occurrence of the
\* first anchor that occurs (in the order in, for, at, weather, temperature)
\* leaves at least one word after stripping, it returns the first word
\* title-cased, or the first two when the first is new, san, los, saint or st.
\* The four examples of the specification give London, New York, Paris and
\* the empty string.
C5_ExtractorReference ==
    ret.op = "_extract_city_from_query" =>
        /\ Occurring(Lower(ret.arg)) = {} => ret.out = <<>>
        /\ (/\ Occurring(Lower(ret.arg)) # {}
            /\ ReferenceWords(Lower(ret.arg)) # <<>>)
           => ret.out = ReferenceCity(ReferenceWords(Lower(ret.arg)))
        /\ ret.arg = <<"W","h","a","t","'","s"," ","t","h","e"," ","w","e","a","t","h","e","r"," ","i","n"," ","L","o","n","d","o","n","?">>
           => ret.out = <<"L","o","n","d","o","n">>
        /\ ret.arg = <<"T","e","m","p","e","r","a","t","u","r","e"," ","i","n"," ","N","e","w"," ","Y","o","r","k">>
           => ret.out = <<"N","e","w"," ","Y","o","r","k">>
        /\ ret.arg = <<"W","e","a","t","h","e","r"," ","f","o","r"," ","P","a","r","i","s">>
           => ret.out = <<"P","a","r","i","s">>
        /\ ret.arg = <<"T","e","l","l"," ","m","e"," ","a","b","o","u","t"," ","A","I">>
           => ret.out = <<>>

\* C5 witness: a two-word city came out of a query with upper-case letters
C5_Witness ==
    /\ ret.op = "_extract_city_from_query"
    /\ ret.out = <<"N","e","w"," ","Y","o","r","k">>
    /\ ret.arg # Lower(ret.arg)

\* C6: for a weather-routed query in which the extractor finds no city the
\* response is the fixed guidance message, the route is weather, and neither
\* the weather lookup nor the formatter is called at any point of the query.
C6_NoCityNoLookup ==
    (pc \notin {"idle", "called"} /\ ShouldUseWeather(query) = "weather"
        /\ ExtractCity(query) = <<>>)
    => /\ ~Called("get_weather")
       /\ ~Called("format_weather_response")
       /\ Handled =>
             /\ state.response = <<"I couldn't identify a city name in your query. Please specify a city, for example: 'What's the weather in London?'">>
             /\ state.route = "weather"
       /\ pc = "done" =>
             /\ result.response = state.response
             /\ result.route = "weather"

\* C6 witness: a weather-routed query without a city has returned
C6_Witness ==
    /\ pc = "done"
    /\ result.route = "weather"
    /\ ExtractCity(query) = <<>>
    /\ query # <<>>

RagSideCalls == {"rag_service.query", "search", "embed_query", "client.search", "llm"}

WeatherSideCalls == {"get_weather", "format_weather_response"}

\* C7: a weather-routed query with a city calls the weather lookup exactly
\* once, with the extracted city, and never the RAG service; its route is
\* weather and, when lookup and formatter return, its response is the
\* formatter's output for the record the lookup returned.  A rag-routed query
\* never calls the weather service and, when the RAG service returns, its
\* response is the answer field of what the RAG service returned.
C7_Delegation ==
    /\ (Handled /\ ShouldUseWeather(query) = "weather" /\ ExtractCity(query) # <<>>)
       => /\ CalledOnce("get_weather")
          /\ TheCall("get_weather").arg = ExtractCity(query)
          /\ \A i \in DOMAIN calls : calls[i].fn \notin RagSideCalls
          /\ state.route = "weather"
          /\ TheCall("get_weather").out.ok
             => /\ CalledOnce("format_weather_response")
                /\ TheCall("format_weather_response").arg
                      = TheCall("get_weather").out.val
                /\ TheCall("format_weather_response").out.ok
                   => state.response = TheCall("format_weather_response").out.val
    /\ (Handled /\ ShouldUseWeather(query) = "rag")
       => /\ \A i \in DOMAIN calls : calls[i].fn \notin WeatherSideCalls
          /\ CalledOnce("rag_service.query")
          /\ TheCall("rag_service.query").arg = query
          /\ state.route = "rag"
          /\ TheCall("rag_service.query").out.ok
             => state.response = TheCall("rag_service.query").out.val["answer"]
    /\ pc = "done" => result.response = state.response /\ result.route = state.route

\* C7 witness: a weather report for an extracted city has been returned
C7_Witness ==
    /\ pc = "done"
    /\ CalledOnce("format_weather_response")
    /\ TheCall("format_weather_response").out.ok
    /\ TheCall("get_weather").arg = <<"P","a","r","i","s">>
    /\ result.response = TheCall("format_weather_response").out.val

\* the call of the store's search made by the last direct RAG query
Retrieval == ret.calls[CHOOSE i \in CallsTo(ret.calls, "search") : TRUE]

Retrieved(n) ==
    /\ ret.op = "query"
    /\ CallsTo(ret.calls, "search") # {}
    /\ Retrieval.out.ok
    /\ Len(Retrieval.out.val) = n

\* C8: when the retriever returns no chunks, RAGService.query returns the
\* fixed answer that it could not find any relevant information, with empty
\* sources and empty retrieved_chunks, and does not call the language model.
C8_NothingFound ==
    Retrieved(0) =>
        /\ ret.out.ok
        /\ ret.out.val["answer"] = <<"I couldn't find any relevant information in the documents to answer your question.">>
        /\ ret.out.val["sources"] = <<>>
        /\ ret.out.val["retrieved_chunks"] = <<>>
        /\ CallsTo(ret.calls, "llm") = {}

\* C8 witness: a direct RAG query whose retrieval came back empty
C8_Witness == Retrieved(0) /\ ret.out.ok

\* the call of the language model made by the last direct RAG query
Completion == ret.calls[CHOOSE i \in CallsTo(ret.calls, "llm") : TRUE]

\* C9: when the retriever returns n >= 1 chunks, RAGService.query calls
\* search once and the language model once, with the chunk texts in retrieval
\* order joined by the separator as context; when the model returns, the
\* answer is the model's text unchanged and sources is the metadata of the n
\* chunks in retrieval order, at most top_k of them.
C9_AnswerFromChunks ==
    \A n \in 1..(Cardinality(PointIds(backend)) + 1) :
        Retrieved(n) =>
            LET docs == Retrieval.out.val
            IN  /\ Cardinality(CallsTo(ret.calls, "search")) = 1
                /\ Cardinality(CallsTo(ret.calls, "llm")) = 1
                /\ Len(Completion.arg.context) = 2 * n - 1
                /\ \A i \in 1..n : Completion.arg.context[2 * i - 1] = docs[i].text
                /\ \A i \in 1..(n - 1) : Completion.arg.context[2 * i] = "\n\n---\n\n"
                /\ Completion.arg.question = ret.arg
                /\ n <= 3
                /\ Completion.out.ok
                   => /\ ret.out.ok
                      /\ ret.out.val["answer"] = Completion.out.val
                      /\ Len(ret.out.val["sources"]) = n
                      /\ \A i \in 1..n :
                            ret.out.val["sources"][i] = docs[i].metadata
                      /\ ret.out.val["retrieved_chunks"] = docs

\* C9 witness: three of four stored chunks were retrieved, with different
\* texts, and the model answered
C9_Witness ==
    /\ Retrieved(3)
    /\ Cardinality(PointIds(backend)) = 4
    /\ Retrieval.out.val[1].text # Retrieval.out.val[3].text
    /\ ret.out.ok
    /\ ret.out.val["answer"] # <<>>

\* the stored records whose payload has the text
RecordsOf(text) ==
    {id \in PointIds(backend) : backend.points[id].payload["text"] = text}

Occurrences(texts, text) == {i \in DOMAIN texts : texts[i] = text}

\* add_documents has returned a second time for the same texts, the first
\* time on an empty collection
Reingested ==
    /\ ret.op = "add_documents"
    /\ ret.again
    /\ ret.out.ok
    /\ ret.first_before = <<>>

\* C10: after add_documents has been called a second time with the same
\* texts the collection has exactly the record ids it had after the first
\* call, and a text that occurs once in the texts has exactly one record.
C10_ReingestOneRecord ==
    Reingested =>
        /\ PointIds(backend) = DOMAIN ret.before
        /\ \A t \in StoreTexts :
              Cardinality(Occurrences(ret.texts, t)) = 1
              => Cardinality(RecordsOf(t)) = 1

\* the ids are the same after the second call as after the first
ReingestSameIds == Reingested => PointIds(backend) = DOMAIN ret.before

\* add_documents has returned from its first call with a non-empty batch
IngestedBatch ==
    /\ pc = "called"
    /\ ret.op = "add_documents"
    /\ ret.out.ok
    /\ ~ret.again
    /\ ret.texts # <<>>

\* the ids of the points of the upsert request of the last add_documents
RequestIds == ret.calls[2].arg

\* C11: within one add_documents call no two chunks receive the same id, and
\* a batch of n chunks upserted into an empty collection leaves n records.
C11_DistinctIdsInBatch ==
    IngestedBatch =>
        /\ \A i, j \in DOMAIN RequestIds : i # j => RequestIds[i] # RequestIds[j]
        /\ ret.before = <<>> => Cardinality(PointIds(backend)) = Len(ret.texts)

\* search has just returned or raised
Searched == pc = "called" /\ ret.op = "search"

\* C12: search on a collection that is empty, or on which clear_collection
\* has just returned, returns the empty sequence and does not raise when
\* the embedding service and the backend answer, whatever records the
\* collection held before the clear.
C12_EmptySearch ==
    (/\ Searched
     /\ (ret.existed /\ ret.on = <<>>) \/ ret.cleared
     /\ ret.services_ok)
    => ret.out = Returns(<<>>)

\* C12 witness: a search returned nothing right after a clear_collection that
\* removed records
C12_Witness ==
    /\ Searched
    /\ ret.cleared
    /\ ret.held # <<>>
    /\ ret.out = Returns(<<>>)

\* what search returned
Results == ret.out.val

\* the ids of the points the backend answered the last search with
HitIds == ret.calls[2].out.val

\* C13: search(query, k) embeds the query exactly once and returns at most k
\* results, in the descending-score order given by the index; each result
\* has the stored payload's text entry as text, the stored payload without
\* its text entry as metadata, and the record's score.
C13_SearchResults ==
    Searched =>
        /\ Cardinality(CallsTo(ret.calls, "embed_query")) = 1
        /\ ret.calls[1].arg = ret.arg
        /\ ret.out.ok =>
              /\ Len(Results) <= ret.top_k
              /\ Len(Results) = Len(HitIds)
              /\ \A i \in 1..(Len(Results) - 1) :
                    Results[i].score >= Results[i + 1].score
              /\ \A i \in DOMAIN Results :
                    LET payload == ret.on[HitIds[i]].payload
                    IN  /\ Results[i].text = payload["text"]
                        /\ DOMAIN Results[i].metadata = DOMAIN payload \ {"text"}
                        /\ \A k \in DOMAIN Results[i].metadata :
                              Results[i].metadata[k] = payload[k]
                        /\ Results[i].score = Similarity(ret.arg, payload["text"])

\* C13 witness: a search with k = 2 on three records returned two results of
\* different scores, with metadata
C13_Witness ==
    /\ Searched
    /\ ret.out.ok
    /\ ret.top_k = 2
    /\ Cardinality(DOMAIN ret.on) = 3
    /\ Len(Results) = 2
    /\ Results[1].score > Results[2].score
    /\ DOMAIN Results[1].metadata = {"source", "chunk_index"}

\* chunk_text has just returned
Chunked == pc = "called" /\ ret.op = "chunk_text"

\* what chunk_text returned
Chunks == ret.out.val

\* C14: the i-th chunk returned by chunk_text, counting from 0, carries
\* chunk_index = i and total_chunks = the number of chunks returned, for any
\* metadata given by the caller.
C14_ChunkIndexes ==
    Chunked =>
        \A i \in DOMAIN Chunks :
            /\ Chunks[i].metadata["chunk_index"] = i - 1
            /\ Chunks[i].metadata["total_chunks"] = Len(Chunks)

\* the indexes are right when the caller's dict has neither entry
ChunkIndexesOwnKeys ==
    (/\ Chunked
     /\ {"chunk_index", "total_chunks"} \cap DOMAIN ret.metadata.dict = {})
    => \A i \in DOMAIN Chunks :
          /\ Chunks[i].metadata["chunk_index"] = i - 1
          /\ Chunks[i].metadata["total_chunks"] = Len(Chunks)

\* the text is the first chunk followed, for each later chunk, by what is
\* left of the chunk after the overlap it repeats from the text before it:
\* done is the length of the text rebuilt by the chunks before chunk i
RECURSIVE Rebuilt(_, _, _, _)
Rebuilt(text, chunks, i, done) ==
    IF i > Len(chunks) THEN done = Len(text)
    ELSE \E overlap \in 0..(IF i = 1 THEN 0 ELSE Len(chunks[i])) :
            /\ overlap <= done
            /\ done - overlap + Len(chunks[i]) <= Len(text)
            /\ SubSeq(text, done - overlap + 1, done - overlap + Len(chunks[i]))
                  = chunks[i]
            /\ Rebuilt(text, chunks, i + 1, done - overlap + Len(chunks[i]))

\* C15: chunking loses nothing: the non-overlapping spans of the chunks
\* returned by chunk_text, concatenated in order, are the input text, so
\* every character of the input is in a chunk.
C15_ChunkingRoundTrip ==
    Chunked =>
        Rebuilt(ret.text, [i \in DOMAIN Chunks |-> Chunks[i].text], 1, 0)

\* add_documents has just returned or raised
Added == pc = "called" /\ ret.op = "add_documents"

\* C16: chunk_text on the empty text returns the empty sequence, and
\* add_documents on an empty sequence of texts returns without a call to the
\* embedding service and without a write to the collection.
C16_EmptyInput ==
    /\ (Chunked /\ ret.text = <<>>) => ret.out = Returns(<<>>)
    /\ (Added /\ ret.texts = <<>>) =>
          /\ ret.out = Returns(<<>>)
          /\ ret.calls = <<>>
          /\ backend.points = ret.before
          /\ ret.after = ret.metadatas

\* C16 witness: add_documents returned from an empty sequence of texts on a
\* collection that holds records
C16_Witness ==
    /\ Added
    /\ ret.texts = <<>>
    /\ ret.out.ok
    /\ ret.before # <<>>

\* get_weather has just returned or raised
Looked == pc = "called" /\ ret.op = "get_weather"

WrappedPrefixes ==
    {"Failed to fetch weather data: ", "Unexpected API response format: "}

RecordKeys ==
    {"city", "country", "temperature", "feels_like", "humidity", "pressure",
     "description", "wind_speed", "visibility", "units"}

\* C17: when the HTTP request raises, whatever the exception, get_weather
\* raises 'Failed to fetch weather data'; get_weather returns a complete
\* record or raises one of its two wrapped errors, and nothing else.
C17_WrappedErrors ==
    Looked =>
        /\ ret.http.kind \in {"request_exception", "other_exception"} =>
              /\ ~ret.out.ok
              /\ ret.out.msg[1] = "Failed to fetch weather data: "
        /\ ~ret.out.ok => ret.out.msg[1] \in WrappedPrefixes
        /\ ret.out.ok => DOMAIN ret.out.val = RecordKeys

\* a RequestException of the HTTP request and a missing key of the document
\* are wrapped
RequestExceptionsWrapped ==
    Looked =>
        /\ ret.http.kind = "request_exception" =>
              ret.out = Raises(<<"Failed to fetch weather data: ", ret.http.msg>>)
        /\ (ret.http.kind = "json" /\ FirstMissing(ret.http.data) # 0) =>
              /\ ~ret.out.ok
              /\ ret.out.msg[1] = "Unexpected API response format: "

\* format_weather_response has just returned
Formatted == pc = "called" /\ ret.op = "format_weather_response" /\ ret.out.ok

\* what a report shows on its visibility line
VisibilityLine(response) ==
    LET i == CHOOSE i \in DOMAIN response : response[i] = "- **Visibility:** "
    IN  SubSeq(response, i + 1, Len(response))

Placeholder == <<"--">>

\* metres shown as kilometres with one decimal
Kilometres(metres) == <<Fix1((metres + 50) \div 100), " km">>

\* C18: the report of a lookup shows the placeholder on its visibility line
\* exactly when the service's document carried no visibility, and otherwise
\* the document's visibility in kilometres; a record without a visibility
\* entry is accepted by the formatter and gives the placeholder.
C18_VisibilityShown ==
    /\ (Formatted /\ ret.after_lookup) =>
          VisibilityLine(ret.out.val) =
              IF "visibility" \in DOMAIN ret.payload
              THEN Kilometres(ret.payload.visibility) ELSE Placeholder
    /\ (/\ pc = "called"
        /\ ret.op = "format_weather_response"
        /\ "visibility" \notin DOMAIN ret.arg)
       => /\ ret.out.ok
          /\ VisibilityLine(ret.out.val) = Placeholder

\* the report is right for a document whose visibility is not 0
VisibilityShownUnlessZero ==
    (/\ Formatted
     /\ ret.after_lookup
     /\ "visibility" \in DOMAIN ret.payload => ret.payload.visibility # 0)
    => VisibilityLine(ret.out.val) =
          IF "visibility" \in DOMAIN ret.payload
          THEN Kilometres(ret.payload.visibility) ELSE Placeholder

\* clear_collection has just returned or raised
Cleared == pc = "called" /\ ret.op = "clear_collection"

\* C19: the set of record ids of the index never loses an element in a step
\* other than a clear_collection, and every step other than a
\* clear_collection or an add_documents (a search, a RAG query, any step of
\* process_query) leaves the index as it was.
C19_AppendOnly ==
    [][/\ ~Cleared' => PointIds(backend) \subseteq PointIds(backend')
       /\ (~Cleared' /\ ~Added') => backend' = backend]_vars

\* C19 witness: an add_documents on a collection with records has replaced
\* one of them and kept another
C19_Witness ==
    /\ Added
    /\ ret.out.ok
    /\ ret.texts # <<>>
    /\ DOMAIN ret.before \subseteq PointIds(backend)
    /\ \E id \in DOMAIN ret.before :
          /\ \E i \in DOMAIN RequestIds : RequestIds[i] = id
          /\ backend.points[id] # ret.before[id]
    /\ \E id \in DOMAIN ret.before : \A i \in DOMAIN RequestIds : RequestIds[i] # id

\* the response a call with this query has to give on the replies recorded
\* in its own calls: the guidance message, the formatter's output or the
\* RAG service's answer, or the handler's apology with the message raised
ResponseOn(q, own) ==
    IF ShouldUseWeather(q) = "weather"
    THEN IF ExtractCity(q) = <<>> THEN GuidanceMessage
         ELSE IF ~own[1].out.ok THEN <<WeatherApology>> \o own[1].out.msg
         ELSE IF ~own[2].out.ok THEN <<WeatherApology>> \o own[2].out.msg
         ELSE own[2].out.val
    ELSE IF ~own[1].out.ok THEN <<RagApology>> \o own[1].out.msg
         ELSE own[1].out.val["answer"]

\* the calls a call with this query made were made for this query
OwnCalls(q, own) ==
    IF ShouldUseWeather(q) = "weather"
    THEN \A i \in DOMAIN own :
            /\ own[i].fn \in {"get_weather", "format_weather_response"}
            /\ own[i].fn = "get_weather" => own[i].arg = ExtractCity(q)
            /\ own[i].fn = "format_weather_response" => own[i].arg = own[1].out.val
    ELSE \A i \in DOMAIN own :
            /\ own[i].fn \in {"rag_service.query", "search", "embed_query",
                              "client.search", "llm"}
            /\ own[i].fn \in {"rag_service.query", "search", "embed_query"}
                  => own[i].arg = q
            /\ own[i].fn = "llm" => own[i].arg.question = q

\* the call of thread t has returned what its own query and the replies to
\* it determine
OwnResult(t) ==
    LET call == running[t]
    IN  call.pc = "done" =>
            /\ call.result.query = call.query
            /\ call.result.route = ShouldUseWeather(call.query)
            /\ call.result.response = ResponseOn(call.query, call.calls)
            /\ OwnCalls(call.query, call.calls)

\* a step is a step of one thread, and leaves the agent and the collection
\* as they were
OneThreadSteps ==
    /\ \A t, u \in Threads :
          (t # u /\ running'[t] # running[t]) => running'[u] = running[u]
    /\ UNCHANGED <<pc, query, state, result, nodes, calls, backend, ret, session>>

\* C20: in every interleaving of concurrent calls of process_query, also
\* after earlier calls, a call returns its own query unchanged, the
\* classification of its own query as route, and the response its own query
\* and the collaborators' replies to it determine; no call raises, and no
\* step of a call writes what another call or the agent holds.
C20_CallsIsolated ==
    /\ [](\A t \in Threads : running[t].pc # "raised" /\ OwnResult(t))
    /\ [][OneThreadSteps]_vars

\* C20 witness: two calls with different queries and routes have both
\* returned, the second begun while the first was inside process_query, the
\* first with a query in upper case
C20_Witness ==
    /\ running[1].pc = "done"
    /\ running[2].pc = "done"
    /\ running[2].overlapped
    /\ running[1].result.route = "weather"
    /\ running[2].result.route = "rag"
    /\ running[1].result.query # Lower(running[1].result.query)
    /\ running[1].result.response = GuidanceMessage
    /\ running[2].calls # <<>>
    /\ running[2].result.response # running[1].result.response

(***************************************************************************)
(* The caller's arguments after add_documents.                             *)
(***************************************************************************)
\* C23: add_documents leaves the caller's metadata mappings unchanged: after
\* the call, returned or raised, each mapping passed in has exactly the keys
\* and values it had before the call.
C23_MetadatasUnchanged ==
    Added => ret.after = ret.metadatas

\* add_documents writes nothing to the caller's mappings but the text entry
\* of the mappings its loop has read
OnlyTextEntriesWritten ==
    Added =>
        /\ ret.after.none = ret.metadatas.none
        /\ Len(ret.after.list) = Len(ret.metadatas.list)
        /\ \A i \in DOMAIN ret.after.list :
              LET old == ret.metadatas.list[i]
                  new == ret.after.list[i]
              IN  /\ DOMAIN new \in {DOMAIN old, DOMAIN old \cup {"text"}}
                  /\ \A k \in DOMAIN old \ {"text"} : new[k] = old[k]
                  /\ new # old => new["text"] = ret.texts[i]

(***************************************************************************)
(* The city extractor and the anchor it uses.                              *)
(***************************************************************************)
\* the extractor has just been called on a query
Extracted == pc = "called" /\ ret.op = "_extract_city_from_query"

\* C24: the result of the city extractor is determined by the first anchor (in
\* the order in, for, at, weather, temperature) that occurs in the query
\* alone: it is the city in the text after that anchor's first occurrence,
\* and the empty string when nothing or only punctuation follows it; anchors
\* of lower priority that also occur are never used.
C24_FirstAnchorOnly ==
    (Extracted /\ Occurring(Lower(ret.arg)) # {}) =>
        ret.out = IF ReferenceWords(Lower(ret.arg)) = <<>> THEN <<>>
                  ELSE ReferenceCity(ReferenceWords(Lower(ret.arg)))

\* the extractor uses an anchor of lower priority only when the text after
\* the first anchor that occurs leaves no word
LowerAnchorOnlyAfterNoWord ==
    (Extracted /\ Occurring(Lower(ret.arg)) # {}
               /\ ReferenceWords(Lower(ret.arg)) # <<>>) =>
        ret.out = ReferenceCity(ReferenceWords(Lower(ret.arg)))

\* C25: a non-empty string returned by the city extractor does not end with
\* any of the characters ? . , !
C25_NoTrailingPunctuation ==
    (Extracted /\ ret.out # <<>>) =>
        ret.out[Len(ret.out)] \notin {"?", ".", ",", "!"}

(***************************************************************************)
(* What add_documents sends to the index.                                  *)
(***************************************************************************)
\* the embedding service raised in the last add_documents
EmbeddingRaised == ret.calls # <<>> /\ ~ret.calls[1].out.ok

\* the points of the call go to the index in at most one upsert, which is the
\* last call made, follows the embedding of the texts, and carries one point
\* for each text
SingleUpsert ==
    /\ Cardinality(CallsTo(ret.calls, "upsert")) <= 1
    /\ \A i \in CallsTo(ret.calls, "upsert") :
          /\ i = Len(ret.calls)
          /\ i > 1
          /\ ret.calls[1].fn = "embed_documents"
          /\ ret.calls[1].out.ok
          /\ Len(ret.calls[i].arg) = Len(ret.texts)

\* C28, as stated: the points of a call are sent in a single upsert issued
\* after every embedding and id has been computed, so when the embedding
\* service raises, or the metadata list is shorter than the text list,
\* add_documents raises and the index holds exactly the records it held
\* before the call.
C28_AllOrNothing ==
    Added =>
        /\ SingleUpsert
        /\ (EmbeddingRaised
            \/ (~ret.metadatas.none /\ Len(ret.metadatas.list) < Len(ret.texts)))
           => /\ ~ret.out.ok
              /\ CallsTo(ret.calls, "upsert") = {}
              /\ backend.points = ret.before

\* C28, for a metadata list that is not empty: the points of a call are sent
\* in a single upsert issued after every embedding and id has been computed,
\* so when the embedding service raises, or the metadata list is not empty
\* and shorter than the text list, add_documents raises and the index holds
\* exactly the records it held before the call.
C28_AllOrNothingNonEmptyList ==
    Added =>
        /\ SingleUpsert
        /\ (EmbeddingRaised
            \/ (/\ ~ret.metadatas.none
                /\ Len(ret.metadatas.list) >= 1
                /\ Len(ret.metadatas.list) < Len(ret.texts)))
           => /\ ~ret.out.ok
              /\ CallsTo(ret.calls, "upsert") = {}
              /\ backend.points = ret.before

\* C28 witness: add_documents raised on two texts with one metadata mapping,
\* after the embedding service answered, on a collection that holds records
C28_Witness ==
    /\ Added
    /\ Len(ret.texts) = 2
    /\ ~ret.metadatas.none
    /\ Len(ret.metadatas.list) = 1
    /\ ~EmbeddingRaised
    /\ ~ret.out.ok
    /\ ret.before # <<>>
    /\ backend.points = ret.before

(***************************************************************************)
(* A record from add_documents to a search result.                         *)
(***************************************************************************)
\* the mapping passed in for the chunk at position i of the last add_documents
PassedIn(i) == IF Truthy(ret.metadatas) THEN ret.metadatas.list[i] ELSE <<>>

\* the chunks of the last add_documents whose record is in the collection:
\* those whose id no other chunk of the request has
RecordedChunks ==
    {i \in DOMAIN ret.texts : \A j \in DOMAIN ret.texts : RequestIds[j] = RequestIds[i] => j = i}

\* the result a search gives for the record of the chunk at position i
ResultFor(i) == FormatResult(backend, ret.texts[i], RequestIds[i])

\* C29: for a chunk written by add_documents with text t and metadata mapping
\* M, a search result that returns its record has text equal to t and
\* metadata equal to M as it was passed in, whatever keys M contains.
C29_IngestSearchRoundTrip ==
    IngestedBatch =>
        \A i \in RecordedChunks :
            /\ ResultFor(i).text = ret.texts[i]
            /\ ResultFor(i).metadata = PassedIn(i)

\* the round trip gives back the text, and every entry of the mapping but
\* one under the key text
RoundTripButTextKey ==
    IngestedBatch =>
        \A i \in RecordedChunks :
            /\ ResultFor(i).text = ret.texts[i]
            /\ DOMAIN ResultFor(i).metadata = DOMAIN PassedIn(i) \ {"text"}
            /\ \A k \in DOMAIN ResultFor(i).metadata :
                  ResultFor(i).metadata[k] = PassedIn(i)[k]

(***************************************************************************)
(* The application: credentials and the evaluation of answers.             *)
(***************************************************************************)
\* a key that is None or empty
Missing(key) == key.none \/ key.val = ""

\* process_query has been called in the session and has not been forgotten
Processing == pc \in {"route", "weather", "rag", "end", "done", "raised"}

\* C21: constructing WeatherService with no API key, neither as argument nor
\* in the configuration, raises; in the application process_query is called
\* only in a session whose initialize_services has returned True, and in a
\* process without the key no session is initialised, holds an agent, or has
\* a message in its history.
C21_NoQueryBeforeInitialisation ==
    /\ (pc = "called" /\ ret.op = "WeatherService"
            /\ Missing(ret.arg) /\ Missing(ret.configured))
       => (~ret.out.ok /\ ret.out.msg = <<"OpenWeatherMap API key is required">>)
    /\ Processing => (session.initialized /\ session.agent)
    /\ session.agent <=> session.initialized
    /\ Missing(session.key) =>
          /\ ~session.initialized
          /\ session.at \in {"waiting", "init"}
          /\ ~session.chat_input
          /\ session.messages = <<>>

\* C21 witness: in a process without the key a run of the script has stopped
\* on the error of the WeatherService constructor, with no chat input
\* rendered and no query processed
C21_Witness ==
    /\ Missing(session.key)
    /\ session.at = "waiting"
    /\ session.shown = <<[error |-> <<"Error initializing services: ",
                                      "OpenWeatherMap API key is required">>]>>
    /\ ~session.chat_input
    /\ ~Processing

\* the answer to the prompt of this run has been displayed, evaluated and
\* added to the history; result is what process_query returned
AnswerShown == session.at = "answered"

\* C22: evaluate_response never raises, whatever the logging client does
\* (not configured, create_run raises or returns nothing, create_feedback
\* raises), and the response and route displayed and added to the chat
\* history for a query are those process_query returned, whether the
\* evaluation succeeds, fails or never starts.
C22_EvaluationBestEffort ==
    AnswerShown =>
        /\ session.evaluation.ran => session.evaluation.out.ok
        /\ session.shown = <<[response |-> result.response, route |-> result.route]>>
        /\ Len(session.messages) = 2 * session.prompts
        /\ session.messages[Len(session.messages) - 1] =
              [role |-> "user", content |-> session.prompt]
        /\ session.messages[Len(session.messages)] =
              [role |-> "assistant", content |-> result.response,
               route |-> result.route]
        /\ session.last_route = result.route
        /\ result.query = session.prompt

\* C22 witness: the answer to a second prompt is in the history as
\* process_query returned it although create_feedback raised in its
\* evaluation, the first answer evaluated or not
C22_Witness ==
    /\ AnswerShown
    /\ session.prompts = 2
    /\ session.evaluation.ran
    /\ session.evaluation.client.configured
    /\ session.evaluation.client.create_feedback = "raises"
    /\ session.evaluation.out = Returns(<<>>)
    /\ result.route = "rag"
    /\ session.messages[4].content = result.response
    /\ session.messages[2].route = "weather"

(***************************************************************************)
(* The shared collection.                                                  *)
(***************************************************************************)
\* thread t has left the constructor of VectorStore, returned or raised
Constructed(t) == running[t].op = "init" /\ running[t].pc \in {"new", "ready"}

\* thread t is past the existence check of a constructor and about to call
\* create_collection
Creating(t) == running[t].op = "init" /\ running[t].pc = "create"

\* C26: VectorStore initialisations that run concurrently against a backend
\* in which the collection does not exist yet complete without raising when
\* no call to the backend fails by itself, and the collection is created
\* once: no two of them are past the existence check and about to create it.
C26_InitialisationsDoNotRace ==
    /\ \A t \in Threads : (Constructed(t) /\ ~running[t].fault) => running[t].out.ok
    /\ \A t, u \in Threads : (Creating(t) /\ Creating(u)) => t = u

\* a search or add_documents of thread t has failed because the collection
\* is missing
FailedForMissing(t) ==
    /\ running[t].op \in {"search", "add_documents"}
    /\ ~running[t].out.ok
    /\ running[t].out.msg[Len(running[t].out.msg)] = "Collection doesn't exist"

\* C27: once a VectorStore has been initialised the collection exists in every
\* reachable state, the intermediate states of clear_collection and the
\* state after clear_collection raises included, and no search or
\* add_documents fails because the collection is missing.
C27_CollectionAlwaysExists ==
    (\E t \in Threads : running[t].initialised) =>
        /\ backend.exists
        /\ \A t \in Threads : ~FailedForMissing(t)

====
